---- MODULE Spec2Model ----
(***************************************************************************)
(* A model of asaidimu/querydsl: the SQLite query generator                *)
(* (SqliteQuery.Generate and its WHERE builder), the SQLite backend's      *)
(* reading of the generated statement, and the hybrid executor             *)
(* (SqliteExecutor.Query with its in-process filter, compute and           *)
(* projection passes and the two function registries).                     *)
(*                                                                         *)
(* Text is a sequence of atoms.  An atom is either one piece of fixed SQL  *)
(* text written by the generator, or one piece of caller-supplied text.    *)
(* The double quote is an atom of its own, so that quoting and escaping    *)
(* are computed as the code computes them.                                 *)
(***************************************************************************)
EXTENDS Integers, Sequences, FiniteSets, TLC

\* ------------------------------------------------------------------ bounds

MaxRows == 2

MaxNameLen == 2

\* ------------------------------------------------------------- text, names

DQ == "\""

Name(s) == <<s>>

RECURSIVE Join(_, _)
Join(parts, sep) ==
  IF Len(parts) = 0 THEN <<>>
  ELSE IF Len(parts) = 1 THEN parts[1]
  ELSE parts[1] \o sep \o Join(Tail(parts), sep)

\* Every logical operator read as OR.
ToUpperAsOr(s) == "OR"

ToUpper(s) ==
  CASE s = "and"  -> "AND"
    [] s = "or"   -> "OR"
    [] s = "not"  -> "NOT"
    [] s = "nor"  -> "NOR"
    [] s = "xor"  -> "XOR"
    [] s = "asc"  -> "ASC"
    [] s = "desc" -> "DESC"
    [] s = "Desc" -> "DESC"
    [] s = "sideways" -> "SIDEWAYS"
    [] OTHER      -> s

IntText(n) == <<ToString(n)>>

\* ------------------------------------------------------------------ values

\* FilterValue / a column value: int64, text, bool, nil or a list of values.
IntV(n)  == [t |-> "int",  i |-> n, s |-> <<>>, l |-> <<>>]
TextV(a) == [t |-> "text", i |-> 0, s |-> a,    l |-> <<>>]
BoolV(b) == [t |-> "bool", i |-> IF b THEN 1 ELSE 0, s |-> <<>>, l |-> <<>>]
NilV     == [t |-> "nil",  i |-> 0, s |-> <<>>, l |-> <<>>]
ListV(q) == [t |-> "list", i |-> 0, s |-> <<>>, l |-> q]

\* fmt.Sprintf("%v", value)
Sprintv(v) ==
  CASE v.t = "int"  -> IntText(v.i)
    [] v.t = "text" -> v.s
    [] v.t = "bool" -> IF v.i = 1 THEN <<"true">> ELSE <<"false">>
    [] OTHER        -> <<"<nil>">>

\* ----------------------------------------------------- filter tree (types)

\* A pointer is a sequence of length 0 (nil) or 1.
Nil == <<>>
IsNil(p) == Len(p) = 0

Cond(field, op, value) ==
  [Condition |-> <<[Field |-> field, Operator |-> op, Value |-> value]>>,
   Group |-> Nil]

Group(op, conds) ==
  [Condition |-> Nil, Group |-> <<[Operator |-> op, Conditions |-> conds]>>]

EmptyFilter == [Condition |-> Nil, Group |-> Nil]

\* A table of standard operators that lacks nexists.
standardComparisonOperatorsWithoutNexists ==
  {"eq", "neq", "lt", "lte", "gt", "gte", "in", "nin", "contains",
   "ncontains", "startswith", "endswith", "exists"}

standardComparisonOperators ==
  {"eq", "neq", "lt", "lte", "gt", "gte", "in", "nin", "contains",
   "ncontains", "startswith", "endswith", "exists", "nexists"}

IsStandard(c) == c \in standardComparisonOperators

\* --------------------------------------------------------- SQL generation

RECURSIVE ReplaceAllDQ(_)
ReplaceAllDQ(s) ==
  IF Len(s) = 0 THEN <<>>
  ELSE (IF Head(s) = DQ THEN <<DQ, DQ>> ELSE <<Head(s)>>) \o ReplaceAllDQ(Tail(s))

quoteIdentifierNoEscape(s) == <<DQ>> \o s \o <<DQ>>

quoteIdentifier(s) == <<DQ>> \o ReplaceAllDQ(s) \o <<DQ>>

Built(clause, params, err) == [clause |-> clause, params |-> params, err |-> err]

\* A list of placeholders that is always a single one.
PlaceholdersSingle(n) == <<<<"?">>>>

RECURSIVE Placeholders(_)
Placeholders(n) == IF n = 0 THEN <<>> ELSE <<<<"?">>>> \o Placeholders(n - 1)

\* A builder that writes the value into the statement text.
buildConditionInline(cond, queryParams) ==
  Built(quoteIdentifier(cond.Field) \o <<" = ">> \o Sprintv(cond.Value),
        queryParams, "")

buildCondition(cond, queryParams) ==
  LET quotedField == quoteIdentifier(cond.Field)
      op == cond.Operator
      one(sym) == Built(quotedField \o <<sym, "?">>,
                        Append(queryParams, cond.Value), "")
      like(sym, pat) == Built(quotedField \o <<sym, "?">>,
                              Append(queryParams, TextV(pat)), "")
      vals == cond.Value.l
      isList == cond.Value.t = "list" /\ Len(vals) > 0
      many(sym) == Built(quotedField \o <<sym>>
                           \o Join(Placeholders(Len(vals)), <<",">>) \o <<")">>,
                         queryParams \o vals, "")
  IN CASE op = "eq"  -> one(" = ")
       [] op = "neq" -> one(" != ")
       [] op = "lt"  -> one(" < ")
       [] op = "lte" -> one(" <= ")
       [] op = "gt"  -> one(" > ")
       [] op = "gte" -> one(" >= ")
       [] op = "in"  -> IF isList THEN many(" IN (")
                        ELSE Built(<<>>, queryParams,
                                   "IN operator requires a non-empty array value")
       [] op = "nin" -> IF isList THEN many(" NOT IN (")
                        ELSE Built(<<>>, queryParams,
                                   "NIN operator requires a non-empty array value")
       [] op = "contains"   -> like(" LIKE ", <<"%">> \o Sprintv(cond.Value) \o <<"%">>)
       [] op = "ncontains"  -> like(" NOT LIKE ", <<"%">> \o Sprintv(cond.Value) \o <<"%">>)
       [] op = "startswith" -> like(" LIKE ", Sprintv(cond.Value) \o <<"%">>)
       [] op = "endswith"   -> like(" LIKE ", <<"%">> \o Sprintv(cond.Value))
       [] op = "exists"     -> Built(quotedField \o <<" IS NOT NULL">>, queryParams, "")
       [] op = "nexists"    -> Built(quotedField \o <<" IS NULL">>, queryParams, "")
       [] OTHER -> Built(<<>>, queryParams,
                         "unsupported comparison operator for direct SQL")

RECURSIVE buildWhereClause(_, _)
RECURSIVE buildGroupClauses(_, _, _)

RECURSIVE buildGroupClausesKeepsEmpty(_, _, _)
\* A loop that keeps the empty fragment of a child.
buildGroupClausesKeepsEmpty(conds, groupClauses, queryParams) ==
  IF Len(conds) = 0
  THEN [groupClauses |-> groupClauses, params |-> queryParams, err |-> ""]
  ELSE LET r == buildWhereClause(Head(conds), queryParams)
       IN IF r.err # ""
          THEN [groupClauses |-> groupClauses, params |-> r.params, err |-> r.err]
          ELSE buildGroupClausesKeepsEmpty(Tail(conds), Append(groupClauses, r.clause),
                                           r.params)

\* The loop of buildWhereClause over a group's children: the fragments the
\* children produced, the parameters appended so far and the first error.
buildGroupClauses(conds, groupClauses, queryParams) ==
  IF Len(conds) = 0
  THEN [groupClauses |-> groupClauses, params |-> queryParams, err |-> ""]
  ELSE LET r == buildWhereClause(Head(conds), queryParams)
       IN IF r.err # ""
          THEN [groupClauses |-> groupClauses, params |-> r.params, err |-> r.err]
          ELSE buildGroupClauses(
                 Tail(conds),
                 IF Len(r.clause) # 0 THEN Append(groupClauses, r.clause)
                                      ELSE groupClauses,
                 r.params)

buildWhereClause(filter, queryParams) ==
  IF ~IsNil(filter.Condition) THEN
    LET c == filter.Condition[1]
    IN IF IsStandard(c.Operator) THEN buildCondition(c, queryParams)
       ELSE Built(<<>>, queryParams, "")
  ELSE IF ~IsNil(filter.Group) THEN
    LET g == filter.Group[1]
        w == buildGroupClauses(g.Conditions, <<>>, queryParams)
        op == ToUpper(g.Operator)
    IN IF w.err # "" THEN Built(<<>>, w.params, w.err)
       ELSE IF Len(w.groupClauses) = 0 THEN Built(<<>>, w.params, "")
       ELSE CASE op = "NOT" ->
                   IF Len(w.groupClauses) # 1
                   THEN Built(<<>>, w.params,
                          "NOT operator requires exactly one condition/group for SQL translation")
                   ELSE Built(<<"NOT (">> \o w.groupClauses[1] \o <<")">>, w.params, "")
              [] op \in {"AND", "OR"} ->
                   Built(<<"(">>
                           \o Join(w.groupClauses,
                                   IF op = "AND" THEN <<" AND ">> ELSE <<" OR ">>)
                           \o <<")">>,
                         w.params, "")
              [] OTHER ->
                   Built(<<>>, w.params,
                         "unsupported logical operator for direct SQL translation")
  ELSE Built(<<>>, queryParams, "empty or invalid filter structure")

\* ----------------------------------------------------- request (types)

ProjectionField(name) == [Name |-> name, Nested |-> Nil]

SortCfg(field, dir) == [Field |-> field, Direction |-> dir]

OffsetPage(limit, offset) == <<[Type |-> "offset", Limit |-> limit, Offset |-> offset]>>

CursorPage(limit) == <<[Type |-> "cursor", Limit |-> limit, Offset |-> Nil]>>

Computed(fn, alias) ==
  [ComputedFieldExpression |-> <<[Function |-> fn, Alias |-> alias]>>]

CaseItem == [ComputedFieldExpression |-> Nil]

Projection(include, exclude, computed) ==
  <<[Include |-> include, Exclude |-> exclude, Computed |-> computed]>>

QueryDSL(filters, sort, pagination, projection) ==
  [Filters |-> filters, Sort |-> sort, Pagination |-> pagination,
   Projection |-> projection]

\* ------------------------------------------------------- SqliteQuery.Generate

Generated(sql, params, err) == [sql |-> sql, params |-> params, err |-> err]

RECURSIVE SelectFields(_)
SelectFields(include) ==
  IF Len(include) = 0 THEN <<>>
  ELSE LET field == Head(include)
       IN (IF Len(field.Name) # 0 /\ IsNil(field.Nested)
           THEN <<quoteIdentifier(field.Name)>> ELSE <<>>)
          \o SelectFields(Tail(include))

RECURSIVE OrderByClauses(_)
OrderByClauses(sort) ==
  IF Len(sort) = 0 THEN <<>>
  ELSE <<quoteIdentifier(Head(sort).Field) \o <<" ", ToUpper(Head(sort).Direction)>>>>
       \o OrderByClauses(Tail(sort))

\* A limit taken from any pagination, whatever its type.
paginationLimitAnyType(pagination) ==
  IF ~IsNil(pagination) THEN pagination[1].Limit ELSE -1

\* limit := -1; if Pagination != nil && Type == "offset" { limit = Limit }
paginationLimit(pagination) ==
  IF ~IsNil(pagination) /\ pagination[1].Type = "offset"
  THEN pagination[1].Limit ELSE -1

\* offset := 0; ... if Pagination.Offset != nil { offset = *Offset }
paginationOffset(pagination) ==
  IF ~IsNil(pagination) /\ pagination[1].Type = "offset"
     /\ ~IsNil(pagination[1].Offset)
  THEN pagination[1].Offset[1] ELSE 0

Generate(tableName, dslp) ==
  IF IsNil(dslp) THEN Generated(<<>>, <<>>, "QueryDSL cannot be nil")
  ELSE IF Len(tableName) = 0 THEN Generated(<<>>, <<>>, "table name cannot be empty")
  ELSE
    LET dsl == dslp[1]
        quotedTableName == quoteIdentifier(tableName)
        listed == IF ~IsNil(dsl.Projection) /\ Len(dsl.Projection[1].Include) > 0
                  THEN SelectFields(dsl.Projection[1].Include) ELSE <<>>
        selectFields == IF Len(listed) = 0 THEN << <<"*">> >> ELSE listed
        where == IF ~IsNil(dsl.Filters) THEN buildWhereClause(dsl.Filters[1], <<>>)
                 ELSE Built(<<>>, <<>>, "")
        whereClauses == IF Len(where.clause) # 0 THEN <<where.clause>> ELSE <<>>
        orderByClauses == OrderByClauses(dsl.Sort)
        limit == paginationLimit(dsl.Pagination)
        offset == paginationOffset(dsl.Pagination)
    IN IF where.err # ""
       THEN Generated(<<>>, <<>>, "error building WHERE clause")
       ELSE Generated(
              <<"SELECT ">> \o Join(selectFields, <<", ">>) \o <<" FROM ">>
                \o quotedTableName
                \o (IF Len(whereClauses) > 0
                    THEN <<" WHERE ">> \o Join(whereClauses, <<" AND ">>) ELSE <<>>)
                \o (IF Len(orderByClauses) > 0
                    THEN <<" ORDER BY ">> \o Join(orderByClauses, <<", ">>) ELSE <<>>)
                \o (IF limit # -1 THEN <<" LIMIT ">> \o IntText(limit) ELSE <<>>)
                \o (IF offset > 0 THEN <<" OFFSET ">> \o IntText(offset) ELSE <<>>),
              where.params, "")

\* ------------------------------------------------- the table (test fixture)

ID == Name("id")
FIRST_NAME == Name("first_name")
LAST_NAME == Name("last_name")
AGE == Name("age")
ACCESS_LEVEL == Name("access_level")
IS_ACTIVE == Name("is_active")

USERS == Name("users")

\* CREATE TABLE users: the columns the registered functions and the requests
\* read (balance and created_at are left out), with their declared types.
Columns == <<ID, FIRST_NAME, LAST_NAME, AGE, ACCESS_LEVEL, IS_ACTIVE>>

ColumnSet == {Columns[k] : k \in 1..Len(Columns)}

DatabaseTypeName(col) ==
  CASE col \in {ID, AGE} -> "INTEGER"
    [] col \in {FIRST_NAME, LAST_NAME, ACCESS_LEVEL} -> "TEXT"
    [] col = IS_ACTIVE -> "BOOLEAN"
    [] OTHER -> ""

\* A stored row: SQLite keeps TRUE/FALSE as the integers 1/0.
User(id, first, last, age, level, active) ==
  [c \in ColumnSet |->
     CASE c = ID -> IntV(id)
       [] c = FIRST_NAME -> TextV(<<first>>)
       [] c = LAST_NAME -> TextV(<<last>>)
       [] c = AGE -> IntV(age)
       [] c = ACCESS_LEVEL -> TextV(<<level>>)
       [] OTHER -> IntV(IF active THEN 1 ELSE 0)]

\* INSERT INTO users ... : the five rows of the fixture, in id order.
insertUsers ==
  << User(1, "Alice", "Smith", 25, "standard", TRUE),
     User(2, "Bob", "Johnson", 16, "standard", TRUE),
     User(3, "Charlie", "Brown", 30, "premium", TRUE),
     User(4, "Diana", "Prince", 17, "premium", FALSE),
     User(5, "Eve", "Adams", 42, "standard", TRUE) >>

RECURSIVE SeqOfSet(_)
\* The rows with ids in S, in id order.
SeqOfSet(S) ==
  IF S = {} THEN <<>>
  ELSE LET m == CHOOSE x \in S : \A y \in S : x <= y
       IN <<insertUsers[m]>> \o SeqOfSet(S \ {m})

\* The contents of the users table: any of the fixture's rows, up to MaxRows.
Tables ==
  {SeqOfSet(S) : S \in {T \in SUBSET (1..Len(insertUsers)) : Cardinality(T) <= MaxRows}}

\* ------------------------------------------------------ the SQLite backend

Tok(k, v) == [k |-> k, v |-> v]

RECURSIVE ScanIdent(_, _, _)
\* A quoted identifier from the atom after its opening quote: a doubled
\* quote is one quote of the name, a single quote ends it.
ScanIdent(text, i, acc) ==
  IF i > Len(text) THEN [ok |-> FALSE, name |-> acc, next |-> i]
  ELSE IF text[i] = DQ
       THEN IF i + 1 <= Len(text) /\ text[i + 1] = DQ
            THEN ScanIdent(text, i + 2, Append(acc, DQ))
            ELSE [ok |-> TRUE, name |-> acc, next |-> i + 1]
       ELSE ScanIdent(text, i + 1, Append(acc, text[i]))

RECURSIVE LexFrom(_, _, _)
LexFrom(text, i, toks) ==
  IF i > Len(text) THEN [ok |-> TRUE, toks |-> toks]
  ELSE IF text[i] = DQ
       THEN LET id == ScanIdent(text, i + 1, <<>>)
            IN IF id.ok THEN LexFrom(text, id.next, Append(toks, Tok("id", id.name)))
               ELSE [ok |-> FALSE, toks |-> toks]
       ELSE LexFrom(text, i + 1, Append(toks, Tok("raw", <<text[i]>>)))

\* The statement as the backend's tokenizer reads it.
Lex(text) == LexFrom(text, 1, <<>>)

IsRaw(toks, i, a) == i <= Len(toks) /\ toks[i].k = "raw" /\ toks[i].v = <<a>>

IsId(toks, i) == i <= Len(toks) /\ toks[i].k = "id"

Parsed(ok, node, next, np) == [ok |-> ok, node |-> node, next |-> next, np |-> np]

NoParse(i, np) == Parsed(FALSE, [k |-> "bad"], i, np)

CompareAtoms == {" = ", " != ", " < ", " <= ", " > ", " >= ", " LIKE ", " NOT LIKE "}

RECURSIVE ParseMarks(_, _, _)
\* ?,?,...) : the parameter numbers of an IN list.
ParseMarks(toks, i, ps) ==
  IF ~IsRaw(toks, i, "?") THEN [ok |-> FALSE, ps |-> ps, next |-> i]
  ELSE IF IsRaw(toks, i + 1, ",") THEN ParseMarks(toks, i + 2, Append(ps, Len(ps) + 1))
  ELSE IF IsRaw(toks, i + 1, ")")
       THEN [ok |-> TRUE, ps |-> Append(ps, Len(ps) + 1), next |-> i + 2]
  ELSE [ok |-> FALSE, ps |-> ps, next |-> i]

RECURSIVE ParseExpr(_, _, _)
RECURSIVE ParseMore(_, _, _, _, _)

ParseMore(toks, i, np, nodes, conn) ==
  IF IsRaw(toks, i, ")")
  THEN Parsed(TRUE, [k |-> conn, as |-> nodes], i + 1, np)
  ELSE IF IsRaw(toks, i, IF conn = "and" THEN " AND " ELSE " OR ")
       THEN LET e == ParseExpr(toks, i + 1, np)
            IN IF e.ok THEN ParseMore(toks, e.next, e.np, Append(nodes, e.node), conn)
               ELSE NoParse(i, np)
       ELSE NoParse(i, np)

\* A WHERE expression from token i; np parameters are bound before it.
ParseExpr(toks, i, np) ==
  IF IsRaw(toks, i, "(") THEN
    LET e == ParseExpr(toks, i + 1, np)
    IN IF ~e.ok THEN NoParse(i, np)
       ELSE ParseMore(toks, e.next, e.np, <<e.node>>,
                      IF IsRaw(toks, e.next, " OR ") THEN "or" ELSE "and")
  ELSE IF IsRaw(toks, i, "NOT (") THEN
    LET e == ParseExpr(toks, i + 1, np)
    IN IF e.ok /\ IsRaw(toks, e.next, ")")
       THEN Parsed(TRUE, [k |-> "not", a |-> e.node], e.next + 1, e.np)
       ELSE NoParse(i, np)
  ELSE IF IsId(toks, i) /\ i + 1 <= Len(toks) /\ toks[i + 1].k = "raw" THEN
    LET f == toks[i].v
        a == toks[i + 1].v[1]
    IN IF a \in CompareAtoms /\ IsRaw(toks, i + 2, "?")
       THEN Parsed(TRUE, [k |-> "cmp", f |-> f, op |-> a, p |-> np + 1], i + 3, np + 1)
       ELSE IF a \in {" IN (", " NOT IN ("}
       THEN LET m == ParseMarks(toks, i + 2, <<>>)
            IN IF m.ok
               THEN Parsed(TRUE, [k |-> "in", f |-> f, neg |-> a = " NOT IN (",
                                  ps |-> [j \in 1..Len(m.ps) |-> np + j]],
                           m.next, np + Len(m.ps))
               ELSE NoParse(i, np)
       ELSE IF a \in {" IS NOT NULL", " IS NULL"}
       THEN Parsed(TRUE, [k |-> "null", f |-> f, neg |-> a = " IS NOT NULL"], i + 2, np)
       ELSE NoParse(i, np)
  ELSE NoParse(i, np)

RECURSIVE ParseIdList(_, _, _)
\* "a", "b", ... : the select list.
ParseIdList(toks, i, ids) ==
  IF ~IsId(toks, i) THEN [ok |-> FALSE, ids |-> ids, next |-> i]
  ELSE IF IsRaw(toks, i + 1, ", ")
       THEN ParseIdList(toks, i + 2, Append(ids, toks[i].v))
       ELSE [ok |-> TRUE, ids |-> Append(ids, toks[i].v), next |-> i + 1]

RECURSIVE ParseOrder(_, _, _)
\* "a" ASC, "b" DESC, ... : the ORDER BY terms.
ParseOrder(toks, i, terms) ==
  IF IsId(toks, i) /\ IsRaw(toks, i + 1, " ") /\ i + 2 <= Len(toks)
     /\ toks[i + 2].k = "raw" /\ toks[i + 2].v[1] \in {"ASC", "DESC", ""}
  THEN LET t == [f |-> toks[i].v, desc |-> toks[i + 2].v[1] = "DESC"]
       IN IF IsRaw(toks, i + 3, ", ")
          THEN ParseOrder(toks, i + 4, Append(terms, t))
          ELSE [ok |-> TRUE, terms |-> Append(terms, t), next |-> i + 3]
  ELSE [ok |-> FALSE, terms |-> terms, next |-> i]

NumberAtoms == -3..12

IsNumber(toks, i) ==
  i <= Len(toks) /\ toks[i].k = "raw" /\ \E n \in NumberAtoms : ToString(n) = toks[i].v[1]

NumberOf(a) == CHOOSE n \in NumberAtoms : ToString(n) = a

NotSelect == [ok |-> FALSE]

\* [LIMIT n [OFFSET n]] and the end of the statement.
ParseLimit(toks, star, cols, tbl, where, np, order, iL) ==
  LET hasL == IsRaw(toks, iL, " LIMIT ") /\ IsNumber(toks, iL + 1)
      iF == IF hasL THEN iL + 2 ELSE iL
      hasF == hasL /\ IsRaw(toks, iF, " OFFSET ") /\ IsNumber(toks, iF + 1)
  IN IF (IF hasF THEN iF + 2 ELSE iF) # Len(toks) + 1 THEN NotSelect
     ELSE [ok |-> TRUE, star |-> star, cols |-> cols, table |-> tbl,
           where |-> where, np |-> np, order |-> order,
           limit |-> IF hasL THEN NumberOf(toks[iL + 1].v[1]) ELSE -1,
           offset |-> IF hasF THEN NumberOf(toks[iF + 1].v[1]) ELSE 0]

ParseOrdered(toks, star, cols, tbl, where, np, o) ==
  IF ~o.ok THEN NotSelect
  ELSE ParseLimit(toks, star, cols, tbl, where, np, o.terms, o.next)

\* [ORDER BY terms]
ParseOrderBy(toks, star, cols, tbl, where, np, iO) ==
  ParseOrdered(toks, star, cols, tbl, where, np,
               IF IsRaw(toks, iO, " ORDER BY ") THEN ParseOrder(toks, iO + 1, <<>>)
               ELSE [ok |-> TRUE, terms |-> <<>>, next |-> iO])

ParseFiltered(toks, star, cols, tbl, w) ==
  IF ~w.ok THEN NotSelect
  ELSE ParseOrderBy(toks, star, cols, tbl, <<w.node>>, w.np, w.next)

\* [WHERE expr]
ParseWhere(toks, star, cols, tbl, iW) ==
  IF IsRaw(toks, iW, " WHERE ")
  THEN ParseFiltered(toks, star, cols, tbl, ParseExpr(toks, iW + 1, 0))
  ELSE ParseOrderBy(toks, star, cols, tbl, <<>>, 0, iW)

\* FROM table
ParseFrom(toks, star, cols) ==
  IF ~cols.ok \/ ~IsRaw(toks, cols.next, " FROM ") \/ ~IsId(toks, cols.next + 1)
  THEN NotSelect
  ELSE ParseWhere(toks, star, cols.ids, toks[cols.next + 1].v, cols.next + 2)

\* SELECT list
ParseTokens(lx) ==
  IF ~lx.ok \/ ~IsRaw(lx.toks, 1, "SELECT ") THEN NotSelect
  ELSE IF IsRaw(lx.toks, 2, "*")
       THEN ParseFrom(lx.toks, TRUE, [ok |-> TRUE, ids |-> <<>>, next |-> 3])
       ELSE ParseFrom(lx.toks, FALSE, ParseIdList(lx.toks, 2, <<>>))

\* SELECT list FROM table [WHERE expr] [ORDER BY terms] [LIMIT n [OFFSET n]]
ParseSelect(text) == ParseTokens(Lex(text))

\* The driver's conversion of a bound Go value: bool becomes 0/1.
DriverValue(v) == IF v.t = "bool" THEN IntV(v.i) ELSE v

\* BINARY collation on the words of the fixture.
TextOrder ==
  <<"Adams", "Alice", "Bob", "Brown", "Charlie", "Diana", "Eve", "Johnson",
    "Prince", "Smith", "premium", "standard">>

TextRank(a) ==
  IF Len(a) > 0 /\ \E k \in 1..Len(TextOrder) : TextOrder[k] = a[1]
  THEN CHOOSE k \in 1..Len(TextOrder) : TextOrder[k] = a[1]
  ELSE 0

ClassRank(v) == CASE v.t = "nil" -> 0 [] v.t = "int" -> 1 [] OTHER -> 2

\* SQLite's ordering of two values: NULL, then numbers, then text.
ValLess(a, b) ==
  IF ClassRank(a) # ClassRank(b) THEN ClassRank(a) < ClassRank(b)
  ELSE IF a.t = "int" THEN a.i < b.i
  ELSE IF a.t = "text" THEN TextRank(a.s) < TextRank(b.s)
  ELSE FALSE

ValEq(a, b) == a.t = b.t /\ a.i = b.i /\ a.s = b.s

RECURSIVE Like(_, _)
\* s LIKE pattern, % matching any run of atoms.
Like(pat, s) ==
  IF Len(pat) = 0 THEN Len(s) = 0
  ELSE IF Head(pat) = "%"
       THEN \E k \in 0..Len(s) : Like(Tail(pat), SubSeq(s, k + 1, Len(s)))
       ELSE Len(s) > 0 /\ Head(s) = Head(pat) /\ Like(Tail(pat), Tail(s))

Bool3(b) == IF b THEN "T" ELSE "F"

Not3(x) == CASE x = "T" -> "F" [] x = "F" -> "T" [] OTHER -> "N"

\* A double-quoted name that is no column reads as a string literal where
\* the build keeps that fallback.
ColumnValue(row, f) == IF f \in DOMAIN row THEN row[f] ELSE TextV(f)

RECURSIVE Eval3(_, _, _)
\* The WHERE expression on one stored row, in SQL's three-valued logic.
Eval3(node, row, params) ==
  CASE node.k = "cmp" ->
         LET a == ColumnValue(row, node.f)
             b == DriverValue(params[node.p])
         IN IF a.t = "nil" \/ b.t = "nil" THEN "N"
            ELSE CASE node.op = " = "  -> Bool3(ValEq(a, b))
                   [] node.op = " != " -> Bool3(~ValEq(a, b))
                   [] node.op = " < "  -> Bool3(ValLess(a, b))
                   [] node.op = " <= " -> Bool3(ValLess(a, b) \/ ValEq(a, b))
                   [] node.op = " > "  -> Bool3(ValLess(b, a))
                   [] node.op = " >= " -> Bool3(ValLess(b, a) \/ ValEq(a, b))
                   [] node.op = " LIKE " -> Bool3(Like(Sprintv(b), Sprintv(a)))
                   [] OTHER -> Bool3(~Like(Sprintv(b), Sprintv(a)))
    [] node.k = "in" ->
         LET a == ColumnValue(row, node.f)
             bs == {DriverValue(params[node.ps[j]]) : j \in 1..Len(node.ps)}
             r == IF a.t = "nil" THEN "N"
                  ELSE IF \E b \in bs : b.t # "nil" /\ ValEq(a, b) THEN "T"
                  ELSE IF \E b \in bs : b.t = "nil" THEN "N"
                  ELSE "F"
         IN IF node.neg THEN Not3(r) ELSE r
    [] node.k = "null" ->
         Bool3((ColumnValue(row, node.f).t = "nil") # node.neg)
    [] node.k = "not" -> Not3(Eval3(node.a, row, params))
    [] node.k = "and" ->
         LET rs == {Eval3(node.as[j], row, params) : j \in 1..Len(node.as)}
         IN IF "F" \in rs THEN "F" ELSE IF "N" \in rs THEN "N" ELSE "T"
    [] OTHER ->
         LET rs == {Eval3(node.as[j], row, params) : j \in 1..Len(node.as)}
         IN IF "T" \in rs THEN "T" ELSE IF "N" \in rs THEN "N" ELSE "F"

RECURSIVE NodeFields(_)
\* The identifiers a WHERE expression names.
NodeFields(node) ==
  CASE node.k \in {"cmp", "in", "null"} -> {node.f}
    [] node.k = "not" -> NodeFields(node.a)
    [] OTHER -> UNION {NodeFields(node.as[j]) : j \in 1..Len(node.as)}

RECURSIVE RowBefore(_, _, _)
\* Row a sorts strictly before row b under the ORDER BY terms.
RowBefore(a, b, order) ==
  IF Len(order) = 0 THEN FALSE
  ELSE LET t == Head(order)
           x == ColumnValue(a, t.f)
           y == ColumnValue(b, t.f)
           lt == IF t.desc THEN ValLess(y, x) ELSE ValLess(x, y)
           gt == IF t.desc THEN ValLess(x, y) ELSE ValLess(y, x)
       IN IF lt THEN TRUE ELSE IF gt THEN FALSE ELSE RowBefore(a, b, Tail(order))

RECURSIVE InsertSorted(_, _, _, _)
InsertSorted(sorted, i, table, order) ==
  IF Len(sorted) = 0 THEN <<i>>
  ELSE IF RowBefore(table[i], table[Head(sorted)], order)
       THEN <<i>> \o sorted
       ELSE <<Head(sorted)>> \o InsertSorted(Tail(sorted), i, table, order)

RECURSIVE OrderBy(_, _, _)
\* The row numbers idxs in ORDER BY order; ties keep the scan order.
OrderBy(idxs, table, order) ==
  IF Len(idxs) = 0 THEN <<>>
  ELSE InsertSorted(OrderBy(SubSeq(idxs, 1, Len(idxs) - 1), table, order),
                    idxs[Len(idxs)], table, order)

RECURSIVE Matching(_, _, _, _)
\* The row numbers from i on whose row the WHERE clause accepts.
Matching(table, i, where, params) ==
  IF i > Len(table) THEN <<>>
  ELSE (IF IsNil(where) \/ Eval3(where[1], table[i], params) = "T"
        THEN <<i>> ELSE <<>>)
       \o Matching(table, i + 1, where, params)

Window(idxs, limit, offset) ==
  LET from == IF offset < Len(idxs) THEN offset + 1 ELSE Len(idxs) + 1
      rest == SubSeq(idxs, from, Len(idxs))
  IN IF limit < 0 \/ limit >= Len(rest) THEN rest ELSE SubSeq(rest, 1, limit)

\* The name of a result column: the column's name, or the text as written
\* for a name read as a literal.
ResultColumn(f) == IF f \in ColumnSet THEN f ELSE quoteIdentifier(f)

DbResult(err, columns, rows, src) ==
  [err |-> err, columns |-> columns, rows |-> rows, src |-> src]

\* The rows a statement selects: those matching, ordered, cut to the window.
Selected(st, params, table) ==
  Window(OrderBy(Matching(table, 1, st.where, params), table, st.order),
         st.limit, st.offset)

\* The names a statement reads as columns.
Named(st) ==
  {st.cols[j] : j \in 1..Len(st.cols)}
    \cup (IF IsNil(st.where) THEN {} ELSE NodeFields(st.where[1]))
    \cup {st.order[j].f : j \in 1..Len(st.order)}

\* The result columns of a statement, and what each is read from.
ResultColumns(st) ==
  IF st.star THEN Columns ELSE [j \in 1..Len(st.cols) |-> ResultColumn(st.cols[j])]

ColumnSource(st, c) ==
  IF st.star THEN c
  ELSE st.cols[CHOOSE j \in 1..Len(st.cols) : ResultColumn(st.cols[j]) = c]

Fetch(st, table, columns, idxs) ==
  DbResult("", columns,
           [j \in 1..Len(idxs) |->
              [c \in {columns[k] : k \in 1..Len(columns)} |->
                 ColumnValue(table[idxs[j]], ColumnSource(st, c))]],
           idxs)

\* The statement st run on the users table: an unknown name in double
\* quotes is either read as a string literal or refused.
Run(st, params, table) ==
  IF st.table # USERS THEN {DbResult("no such table", <<>>, <<>>, <<>>)}
  ELSE IF st.np # Len(params) \/ \E j \in 1..Len(params) : params[j].t = "list"
  THEN {DbResult("bad parameter binding", <<>>, <<>>, <<>>)}
  ELSE {Fetch(st, table, ResultColumns(st), Selected(st, params, table))}
         \cup (IF Named(st) \subseteq ColumnSet THEN {}
               ELSE {DbResult("no such column", <<>>, <<>>, <<>>)})

Prepared(st, params, table) ==
  IF ~st.ok THEN {DbResult("syntax error", <<>>, <<>>, <<>>)}
  ELSE Run(st, params, table)

\* db.QueryContext on the users table: what the backend may answer.  rows
\* are the raw driver values per result column, src the stored row each
\* came from.
QueryContext(sql, params, table) == Prepared(ParseSelect(sql), params, table)

\* readRows: the driver's rows as Row maps, typed by the declared column type.
readRows(columns, rows) ==
  [j \in 1..Len(rows) |->
     [c \in DOMAIN rows[j] |->
        LET val == rows[j][c]
        IN IF val.t = "nil" THEN NilV
           ELSE IF DatabaseTypeName(c) = "BOOLEAN" /\ val.t = "int"
                THEN BoolV(val.i # 0)
           ELSE val]]

\* ------------------------------------------- registered functions (tests)

Out(value, err) == [value |-> value, err |-> err]

\* testGoFilterIsAdult: age >= 18, an error when age is no int64.
testGoFilterIsAdult(row) ==
  IF AGE \in DOMAIN row /\ row[AGE].t = "int"
  THEN Out(row[AGE].i >= 18, "")
  ELSE Out(FALSE, "age not found or not int64")

\* testGoFilterHasAccessLevel: access_level = "premium".
testGoFilterHasAccessLevel(row) ==
  IF ACCESS_LEVEL \in DOMAIN row /\ row[ACCESS_LEVEL].t = "text"
  THEN Out(row[ACCESS_LEVEL].s = <<"premium">>, "")
  ELSE Out(FALSE, "access_level not found or not string")

\* testGoComputeFullName: first_name + " " + last_name.
testGoComputeFullName(row) ==
  IF /\ FIRST_NAME \in DOMAIN row /\ row[FIRST_NAME].t = "text"
     /\ LAST_NAME \in DOMAIN row /\ row[LAST_NAME].t = "text"
  THEN Out(TextV(row[FIRST_NAME].s \o <<" ">> \o row[LAST_NAME].s), "")
  ELSE Out(NilV, "missing first_name or last_name")

FilterFunctions == {"testGoFilterIsAdult", "testGoFilterHasAccessLevel"}

ComputeFunctions == {"testGoComputeFullName"}

\* fn(row) for a GoFilterFunction value.
CallFilter(fn, row) ==
  IF fn = "testGoFilterIsAdult" THEN testGoFilterIsAdult(row)
  ELSE testGoFilterHasAccessLevel(row)

\* fn(row) for a GoComputeFunction value.
CallCompute(fn, row) == testGoComputeFullName(row)

\* -------------------------------------------------------- SqliteExecutor

RECURSIVE collectFieldsOfAllConditions(_)
\* A walk that adds the field of every condition, standard or not.
collectFieldsOfAllConditions(filter) ==
  (IF ~IsNil(filter.Condition) THEN {filter.Condition[1].Field} ELSE {})
  \cup
  (IF ~IsNil(filter.Group)
   THEN UNION {collectFieldsOfAllConditions(filter.Group[1].Conditions[j]) :
                 j \in 1..Len(filter.Group[1].Conditions)}
   ELSE {})

RECURSIVE collectGoFilterRequiredFields(_)
\* The fields the walk adds to the required set.
collectGoFilterRequiredFields(filter) ==
  (IF ~IsNil(filter.Condition) /\ ~IsStandard(filter.Condition[1].Operator)
   THEN {filter.Condition[1].Field} ELSE {})
  \cup
  (IF ~IsNil(filter.Group)
   THEN UNION {collectGoFilterRequiredFields(filter.Group[1].Conditions[j]) :
                 j \in 1..Len(filter.Group[1].Conditions)}
   ELSE {})

FULL_NAME_CALC == Name("full_name_calc")

\* requiredFields of determineFieldsToSelect: the keys of the map it fills.
determineFieldsToSelect(dsl) ==
  LET p == dsl.Projection
      include == IF ~IsNil(p) /\ Len(p[1].Include) > 0
                 THEN {p[1].Include[j].Name : j \in 1..Len(p[1].Include)} \ {<<>>}
                 ELSE {}
      goFilter == IF IsNil(dsl.Filters) THEN {}
                  ELSE collectGoFilterRequiredFields(dsl.Filters[1])
      computed == IF ~IsNil(p) /\ \E j \in 1..Len(p[1].Computed) :
                       /\ ~IsNil(p[1].Computed[j].ComputedFieldExpression)
                       /\ p[1].Computed[j].ComputedFieldExpression[1].Function
                            = FULL_NAME_CALC
                  THEN {FIRST_NAME, LAST_NAME} ELSE {}
  IN include \cup goFilter \cup computed

\* The slices a range over the map's keys can build: every order of them.
FieldOrders(S) ==
  {q \in [1..Cardinality(S) -> S] : \A a, b \in 1..Cardinality(S) : a # b => q[a] # q[b]}

Eval(passes, err, calls) == [passes |-> passes, err |-> err, calls |-> calls]

Call(name, found, value, err) ==
  [name |-> name, found |-> found, value |-> value, err |-> err]

\* A standard condition counted as failed in the in-process pass.
standardRejected == Eval(FALSE, "", <<>>)

\* return true, nil: a standard condition is left to the database's WHERE.
standardResult == Eval(TRUE, "", <<>>)

\* The lookup of an operator the registry does not hold, taken as a row
\* that fails the condition.
unregisteredFilterDropsRow(op) == Eval(FALSE, "", <<Call(op, FALSE, FALSE, "")>>)

\* fn, ok := e.goFilterFunctions[op]; if !ok { return false, error }
unregisteredFilter(op) ==
  Eval(FALSE, "unregistered Go filter function for operator",
       <<Call(op, FALSE, FALSE, "")>>)

\* A loop that never returns early.
evaluateLoopToEnd(row, conds, fns, calls, stopWhen, stopValue, endValue) ==
  Eval(endValue, "", calls)

RECURSIVE evaluateGoFilter(_, _, _)
RECURSIVE evaluateLoop(_, _, _, _, _, _, _)

\* A loop of evaluateGoFilter over a group's children: return stopValue at
\* the first child whose result is stopWhen, endValue after the last child.
evaluateLoop(row, conds, fns, calls, stopWhen, stopValue, endValue) ==
  IF Len(conds) = 0 THEN Eval(endValue, "", calls)
  ELSE LET r == evaluateGoFilter(row, Head(conds), fns)
       IN IF r.err # "" THEN Eval(FALSE, r.err, calls \o r.calls)
          ELSE IF r.passes = stopWhen THEN Eval(stopValue, "", calls \o r.calls)
          ELSE evaluateLoop(row, Tail(conds), fns, calls \o r.calls,
                            stopWhen, stopValue, endValue)

\* evaluateGoFilter, with the registry lookups and calls it made.
evaluateGoFilter(row, filter, fns) ==
  IF ~IsNil(filter.Condition) THEN
    LET op == filter.Condition[1].Operator
    IN IF ~IsStandard(op)
       THEN IF op \notin DOMAIN fns
            THEN unregisteredFilter(op)
            ELSE LET r == CallFilter(fns[op], row)
                 IN Eval(r.value, r.err, <<Call(op, TRUE, r.value, r.err)>>)
       ELSE standardResult
  ELSE IF ~IsNil(filter.Group) THEN
    LET g == filter.Group[1]
    IN CASE g.Operator = "and" ->
              evaluateLoop(row, g.Conditions, fns, <<>>, FALSE, FALSE, TRUE)
         [] g.Operator = "or" ->
              evaluateLoop(row, g.Conditions, fns, <<>>, TRUE, TRUE, FALSE)
         [] g.Operator = "not" ->
              IF Len(g.Conditions) # 1
              THEN Eval(FALSE, "NOT operator requires exactly one condition/group for Go evaluation", <<>>)
              ELSE LET r == evaluateGoFilter(row, g.Conditions[1], fns)
                   IN IF r.err # "" THEN Eval(FALSE, r.err, r.calls)
                      ELSE Eval(~r.passes, "", r.calls)
         [] g.Operator = "nor" ->
              evaluateLoop(row, g.Conditions, fns, <<>>, TRUE, FALSE, TRUE)
         [] g.Operator = "xor" ->
              IF Len(g.Conditions) # 2
              THEN Eval(FALSE, "XOR operator requires exactly two conditions/groups for Go evaluation", <<>>)
              ELSE LET a == evaluateGoFilter(row, g.Conditions[1], fns)
                   IN IF a.err # "" THEN Eval(FALSE, a.err, a.calls)
                      ELSE LET b == evaluateGoFilter(row, g.Conditions[2], fns)
                           IN IF b.err # "" THEN Eval(FALSE, b.err, a.calls \o b.calls)
                              ELSE Eval(a.passes # b.passes, "", a.calls \o b.calls)
         [] OTHER ->
              Eval(FALSE, "unsupported logical operator for Go evaluation", <<>>)
  ELSE Eval(FALSE, "empty or invalid filter structure for Go evaluation", <<>>)

Pass(rows, kept, err, calls) ==
  [rows |-> rows, kept |-> kept, err |-> err, calls |-> calls]

RECURSIVE filterRowsSkipsFailed(_, _, _, _, _, _)
\* A loop that drops a row whose evaluation failed and goes on.
filterRowsSkipsFailed(rows, i, filter, fns, kept, calls) ==
  IF i > Len(rows)
  THEN Pass([j \in 1..Len(kept) |-> rows[kept[j]]], kept, "", calls)
  ELSE LET r == evaluateGoFilter(rows[i], filter, fns)
       IN filterRowsSkipsFailed(rows, i + 1, filter, fns,
                                IF r.err = "" /\ r.passes THEN Append(kept, i) ELSE kept,
                                calls \o r.calls)

RECURSIVE filterRows(_, _, _, _, _, _)
\* The loop of applyGoFilters from row i on; kept are the positions of the
\* rows appended to filteredRows.
filterRows(rows, i, filter, fns, kept, calls) ==
  IF i > Len(rows)
  THEN Pass([j \in 1..Len(kept) |-> rows[kept[j]]], kept, "", calls)
  ELSE LET r == evaluateGoFilter(rows[i], filter, fns)
       IN IF r.err # "" THEN Pass(<<>>, <<>>, r.err, calls \o r.calls)
          ELSE filterRows(rows, i + 1, filter, fns,
                          IF r.passes THEN Append(kept, i) ELSE kept,
                          calls \o r.calls)

applyGoFilters(rows, filter, fns) ==
  IF IsNil(filter) THEN Pass(rows, [j \in 1..Len(rows) |-> j], "", <<>>)
  ELSE filterRows(rows, 1, filter[1], fns, <<>>, <<>>)

Alias(item) ==
  IF Len(item.Alias) = 0 THEN item.Function ELSE item.Alias

\* The lookup of a name the registry does not hold, taken as an item to
\* leave out.
unregisteredComputeSkipped(row, funcName, calls) ==
  [row |-> row, err |-> "", calls |-> Append(calls, Call(funcName, FALSE, NilV, ""))]

\* fn, ok := e.goComputeFunctions[funcName]; if !ok { return nil, error }
unregisteredCompute(row, funcName, calls) ==
  [row |-> row, err |-> "unregistered Go compute function",
   calls |-> Append(calls, Call(funcName, FALSE, NilV, ""))]

RECURSIVE computeItemsKeyedByFunction(_, _, _, _)
\* A loop that writes each value under the function's name, whatever the
\* alias.
computeItemsKeyedByFunction(row, items, fns, calls) ==
  IF Len(items) = 0 THEN [row |-> row, err |-> "", calls |-> calls]
  ELSE IF IsNil(Head(items).ComputedFieldExpression)
       THEN computeItemsKeyedByFunction(row, Tail(items), fns, calls)
  ELSE LET item == Head(items).ComputedFieldExpression[1]
           funcName == item.Function
       IN IF funcName \notin DOMAIN fns
          THEN unregisteredCompute(row, funcName, calls)
          ELSE LET r == CallCompute(fns[funcName], row)
                   log == Append(calls, Call(funcName, TRUE, r.value, r.err))
               IN IF r.err # ""
                  THEN [row |-> row, err |-> "error executing Go compute function",
                        calls |-> log]
                  ELSE computeItemsKeyedByFunction(
                         [k \in DOMAIN row \cup {funcName} |->
                            IF k = funcName THEN r.value ELSE row[k]],
                         Tail(items), fns, log)

RECURSIVE computeItems(_, _, _, _)
\* The inner loop of applyGoComputeFunctions: the items on one row.
computeItems(row, items, fns, calls) ==
  IF Len(items) = 0 THEN [row |-> row, err |-> "", calls |-> calls]
  ELSE IF IsNil(Head(items).ComputedFieldExpression)
       THEN computeItems(row, Tail(items), fns, calls)
  ELSE LET item == Head(items).ComputedFieldExpression[1]
           funcName == item.Function
           alias == Alias(item)
       IN IF funcName \notin DOMAIN fns
          THEN unregisteredCompute(row, funcName, calls)
          ELSE LET r == CallCompute(fns[funcName], row)
                   log == Append(calls, Call(funcName, TRUE, r.value, r.err))
               IN IF r.err # ""
                  THEN [row |-> row, err |-> "error executing Go compute function",
                        calls |-> log]
                  ELSE computeItems(
                         [k \in DOMAIN row \cup {alias} |->
                            IF k = alias THEN r.value ELSE row[k]],
                         Tail(items), fns, log)

RECURSIVE computeRows(_, _, _, _, _, _)
computeRows(rows, i, items, fns, done, calls) ==
  IF i > Len(rows) THEN Pass(done, <<>>, "", calls)
  ELSE LET r == computeItems(rows[i], items, fns, calls)
       IN IF r.err # "" THEN Pass(<<>>, <<>>, r.err, r.calls)
          ELSE computeRows(rows, i + 1, items, fns, Append(done, r.row), r.calls)

applyGoComputeFunctions(rows, projection, fns) ==
  IF IsNil(projection) \/ Len(projection[1].Computed) = 0
  THEN Pass(rows, <<>>, "", <<>>)
  ELSE computeRows(rows, 1, projection[1].Computed, fns, <<>>, <<>>)

\* A projection that keeps every key of the row.
projectedKeysKeepsAll(originalRow, p) == DOMAIN originalRow

\* The keys of newRow in applyFinalProjection.
projectedKeys(originalRow, p) ==
  LET base == IF Len(p.Include) > 0
              THEN {p.Include[j].Name : j \in 1..Len(p.Include)} \cap DOMAIN originalRow
              ELSE IF Len(p.Exclude) > 0
              THEN DOMAIN originalRow \ {p.Exclude[j].Name : j \in 1..Len(p.Exclude)}
              ELSE DOMAIN originalRow
      aliases == {Alias(p.Computed[j].ComputedFieldExpression[1]) :
                    j \in {k \in 1..Len(p.Computed) :
                             ~IsNil(p.Computed[k].ComputedFieldExpression)}}
  IN base \cup (aliases \cap DOMAIN originalRow)

\* A loop over the rows that starts at the second one.
applyFinalProjectionFromSecond(rows, projection) ==
  IF IsNil(projection)
     \/ (/\ Len(projection[1].Include) = 0
         /\ Len(projection[1].Exclude) = 0
         /\ Len(projection[1].Computed) = 0)
  THEN rows
  ELSE [j \in 1..(Len(rows) - 1) |->
          [k \in projectedKeys(rows[j + 1], projection[1]) |-> rows[j + 1][k]]]

applyFinalProjection(rows, projection) ==
  IF IsNil(projection)
     \/ (/\ Len(projection[1].Include) = 0
         /\ Len(projection[1].Exclude) = 0
         /\ Len(projection[1].Computed) = 0)
  THEN rows
  ELSE [j \in 1..Len(rows) |->
          [k \in projectedKeys(rows[j], projection[1]) |-> rows[j][k]]]

\* ------------------------------------------------------------ the program

VARIABLES
  table,               \* the rows of the users table
  goFilterFunctions,   \* e.goFilterFunctions
  goComputeFunctions,  \* e.goComputeFunctions
  pc,                  \* where the Query call stands
  tableName, dsl,      \* its arguments
  fieldsToSelect, sqlQuery, queryParams, dbRows, processedRows,  \* its locals
  result, err,         \* what it returns: a pointer to the data, an error
  dbSrc,               \* history: the stored row each fetched row came from
  kept,                \* history: the fetched rows the filter pass kept
  filterCalls, computeCalls,  \* history: the registry lookups and calls made
  fnsAtFilter, fnsAtCompute,  \* history: the registries the passes read
  registrations,       \* history: the registration calls made, latest last
  mu,                  \* e.mu: whether a writer holds it, how many readers do
  queries,             \* the goroutines inside Query, each with its locals
  registrars,          \* the goroutines inside a registration
  mutation,            \* the arguments of an Update or Delete call
  stages               \* history: the steps a Query call took, in order

vars ==
  <<table, goFilterFunctions, goComputeFunctions, pc, tableName, dsl,
    fieldsToSelect, sqlQuery, queryParams, dbRows, processedRows, result, err,
    dbSrc, kept, filterCalls, computeCalls, fnsAtFilter, fnsAtCompute,
    registrations, mu, queries, registrars, mutation, stages>>

\* The lock and the goroutines that contend for it.
locking == <<mu, queries, registrars>>

\* What the specifications of the registry itself and of Update and Delete
\* have besides a Query call.
elsewhere == <<registrations, locking, mutation, stages>>

NoMutation == [filters |-> Nil, updates |-> <<>>, unsafeDelete |-> FALSE]

\* The zero value of sync.RWMutex.
Unlocked == [writer |-> FALSE, readers |-> 0]

\* No call recorded, the lock free, a single caller, a Query call.
InitElsewhere ==
  /\ registrations = <<>>
  /\ mu = Unlocked
  /\ queries = <<>>
  /\ registrars = <<>>
  /\ mutation = NoMutation
  /\ stages = <<>>

registries == <<goFilterFunctions, goComputeFunctions>>

request == <<table, tableName, dsl>>

fetched == <<fieldsToSelect, sqlQuery, queryParams, dbRows, dbSrc>>

filtered == <<processedRows, kept, filterCalls, fnsAtFilter>>

NoError == <<>>

Wrapped(stage, cause) == <<stage, cause>>

EmptyMap == [k \in {} |-> 0]

Request(name, d) == [tableName |-> name, dsl |-> d]

\* One Query call about to run on some table content.
InitQuery(requests, tables) ==
  /\ table \in tables
  /\ pc = "start"
  /\ \E r \in requests : tableName = r.tableName /\ dsl = r.dsl
  /\ fieldsToSelect = <<>>
  /\ sqlQuery = <<>>
  /\ queryParams = <<>>
  /\ dbRows = <<>>
  /\ processedRows = <<>>
  /\ result = Nil
  /\ err = NoError
  /\ dbSrc = <<>>
  /\ kept = <<>>
  /\ filterCalls = <<>>
  /\ computeCalls = <<>>
  /\ fnsAtFilter = EmptyMap
  /\ fnsAtCompute = EmptyMap

\* NewSqliteExecutor, and one Query call about to run on some table content.
InitWith(requests, tables) ==
  /\ InitQuery(requests, tables)
  /\ goFilterFunctions = EmptyMap
  /\ goComputeFunctions = EmptyMap
  /\ InitElsewhere

FilterOperators == {"is_adult_check", "has_premium"}

DISPLAY_NAME == Name("display_name")

ComputeNames == {FULL_NAME_CALC, DISPLAY_NAME}

RegisterComputeFunction(name, fn) ==
  /\ goComputeFunctions' =
       [k \in DOMAIN goComputeFunctions \cup {name} |->
          IF k = name THEN fn ELSE goComputeFunctions[k]]
  /\ UNCHANGED <<goFilterFunctions, pc, request, fetched, filtered, result, err,
                 computeCalls, fnsAtCompute>>

\* A registration that leaves a key already present as it is.
RegisterFilterFunctionKeepsFirst(operator, fn) ==
  /\ goFilterFunctions' =
       [k \in DOMAIN goFilterFunctions \cup {operator} |->
          IF k \in DOMAIN goFilterFunctions THEN goFilterFunctions[k] ELSE fn]
  /\ UNCHANGED <<goComputeFunctions, pc, request, fetched, filtered, result, err,
                 computeCalls, fnsAtCompute>>

RegisterFilterFunction(operator, fn) ==
  /\ goFilterFunctions' =
       [k \in DOMAIN goFilterFunctions \cup {operator} |->
          IF k = operator THEN fn ELSE goFilterFunctions[k]]
  /\ UNCHANGED <<goComputeFunctions, pc, request, fetched, filtered, result, err,
                 computeCalls, fnsAtCompute>>

\* return nil, fmt.Errorf(stage + ": %w", cause)
Fail(stage, cause) ==
  /\ pc' = "done"
  /\ result' = Nil
  /\ err' = Wrapped(stage, cause)

\* Query, lines 56-88: the fields to fetch, the statement, the backend's
\* answer and the rows read from it.
QueryFetch ==
  /\ pc = "start"
  /\ \E finalFields \in FieldOrders(determineFieldsToSelect(dsl)) :
       LET sqlDsl == [dsl EXCEPT !.Projection =
                        Projection([j \in 1..Len(finalFields) |->
                                      ProjectionField(finalFields[j])], <<>>, <<>>)]
           g == Generate(tableName, <<sqlDsl>>)
       IN /\ fieldsToSelect' = finalFields
          /\ sqlQuery' = g.sql
          /\ queryParams' = g.params
          /\ IF g.err # ""
             THEN /\ Fail("failed to generate SQL query", g.err)
                  /\ UNCHANGED <<dbRows, dbSrc>>
             ELSE \E answer \in QueryContext(g.sql, g.params, table) :
                    IF answer.err # ""
                    THEN /\ Fail("failed to execute base query", answer.err)
                         /\ UNCHANGED <<dbRows, dbSrc>>
                    ELSE /\ dbRows' = readRows(answer.columns, answer.rows)
                         /\ dbSrc' = answer.src
                         /\ pc' = "fetched"
                         /\ UNCHANGED <<result, err>>
  /\ UNCHANGED <<registries, request, filtered, computeCalls, fnsAtCompute>>

\* Query, lines 90-95: the in-process filter pass.
QueryFilter ==
  /\ pc = "fetched"
  /\ LET r == applyGoFilters(dbRows, dsl.Filters, goFilterFunctions)
     IN /\ filterCalls' = r.calls
        /\ fnsAtFilter' = goFilterFunctions
        /\ processedRows' = r.rows
        /\ kept' = r.kept
        /\ IF r.err # "" THEN Fail("Go filter failed", r.err)
           ELSE pc' = "filtered" /\ UNCHANGED <<result, err>>
  /\ UNCHANGED <<registries, request, fetched, computeCalls, fnsAtCompute>>

\* Query, lines 97-111: the compute pass, the final projection, the result.
QueryCompute ==
  /\ pc = "filtered"
  /\ LET r == applyGoComputeFunctions(processedRows, dsl.Projection, goComputeFunctions)
     IN /\ computeCalls' = r.calls
        /\ fnsAtCompute' = goComputeFunctions
        /\ IF r.err # "" THEN Fail("Go computed field failed", r.err)
           ELSE /\ pc' = "done"
                /\ result' = <<applyFinalProjection(r.rows, dsl.Projection)>>
                /\ err' = NoError
  /\ UNCHANGED <<registries, request, fetched, filtered>>

\* One Query call and the registrations made before and while it runs; the
\* run ends when the call has returned.
Next ==
  \/ /\ pc # "done"
     /\ \E name \in ComputeNames, fn \in ComputeFunctions :
          RegisterComputeFunction(name, fn)
     /\ UNCHANGED elsewhere
  \/ /\ pc # "done"
     /\ \E operator \in FilterOperators, fn \in FilterFunctions :
          RegisterFilterFunction(operator, fn)
     /\ UNCHANGED elsewhere
  \/ QueryFetch /\ UNCHANGED elsewhere
  \/ QueryFilter /\ UNCHANGED elsewhere
  \/ QueryCompute /\ UNCHANGED elsewhere

\* --------------------------------------------------------------- requests

NativeAge == Cond(AGE, "lt", IntV(30))
NativeAdult == Cond(AGE, "gte", IntV(18))
NativeActive == Cond(IS_ACTIVE, "eq", BoolV(TRUE))
NativeStandard == Cond(ACCESS_LEVEL, "eq", TextV(<<"standard">>))
NativePremium == Cond(ACCESS_LEVEL, "eq", TextV(<<"premium">>))
CustomAdult == Cond(AGE, "is_adult_check", NilV)
CustomPremium == Cond(ACCESS_LEVEL, "has_premium", NilV)

IncludeFirstName == Projection(<<ProjectionField(FIRST_NAME)>>, <<>>, <<>>)

ByAge(dir) == <<SortCfg(AGE, dir)>>

FirstNames(filter, sort, pagination) ==
  Request(USERS, QueryDSL(<<filter>>, sort, pagination, IncludeFirstName))

IsCustom(f) == ~IsNil(f.Condition) /\ ~IsStandard(f.Condition[1].Operator)

IsNative(f) == ~IsNil(f.Condition) /\ IsStandard(f.Condition[1].Operator)

\* ------------------------------------------------- what a condition means

\* A stored row as the executor reads it when every column is fetched.
GoRow(u) == readRows(Columns, <<u>>)[1]

\* The comparison a native condition states, on a stored row.
NativeHolds(c, u) ==
  CASE c.Operator = "eq" -> u[c.Field] = DriverValue(c.Value)
    [] c.Operator = "lt" -> u[c.Field].i < c.Value.i
    [] c.Operator = "gte" -> u[c.Field].i >= c.Value.i
    [] OTHER -> FALSE

\* The function registered in fns for a custom condition returns true.
CustomHolds(c, u, fns) ==
  /\ c.Operator \in DOMAIN fns
  /\ CallFilter(fns[c.Operator], GoRow(u)) = Out(TRUE, "")

RECURSIVE Holds(_, _, _)
\* What a filter tree states of a stored row, in two-valued logic (no stored
\* value is NULL).
Holds(f, u, fns) ==
  IF ~IsNil(f.Condition)
  THEN IF IsCustom(f) THEN CustomHolds(f.Condition[1], u, fns)
       ELSE NativeHolds(f.Condition[1], u)
  ELSE LET cs == f.Group[1].Conditions
       IN CASE f.Group[1].Operator = "and" ->
                 \A j \in 1..Len(cs) : Holds(cs[j], u, fns)
            [] f.Group[1].Operator = "or" ->
                 \E j \in 1..Len(cs) : Holds(cs[j], u, fns)
            [] f.Group[1].Operator = "not" -> ~Holds(cs[1], u, fns)
            [] OTHER -> FALSE

\* The custom conditions of a filter tree.
RECURSIVE CustomConditions(_)
CustomConditions(f) ==
  IF ~IsNil(f.Condition)
  THEN IF IsCustom(f) THEN {f.Condition[1]} ELSE {}
  ELSE UNION {CustomConditions(f.Group[1].Conditions[j]) :
                j \in 1..Len(f.Group[1].Conditions)}

\* Every custom condition of the filter had its function registered when the
\* filter pass ran.
Registered(f) ==
  \A c \in CustomConditions(f) : c.Operator \in DOMAIN fnsAtFilter

\* The first names of the stored rows the filter states true, as a set.
Satisfying(f) ==
  {table[k][FIRST_NAME] : k \in {n \in 1..Len(table) : Holds(f, table[n], fnsAtFilter)}}

Succeeded == pc = "done" /\ err = NoError

\* The first names of the returned rows, in order.
Returned == [i \in 1..Len(result[1]) |-> result[1][i][FIRST_NAME]]

ReturnedSet == {Returned[i] : i \in 1..Len(Returned)}

\* ------------------------------------------------------- C1: AND at the root

AndRequests ==
  { FirstNames(Group("and", <<NativeAge, CustomAdult>>), <<>>, Nil),
    FirstNames(Group("and", <<CustomAdult, NativeActive>>), <<>>, Nil),
    FirstNames(Group("and", <<NativeAge, NativeActive, CustomPremium>>), <<>>, Nil),
    FirstNames(Group("and", <<CustomAdult, CustomPremium>>), <<>>, Nil),
    FirstNames(Group("and", <<NativeAge, CustomAdult>>), ByAge("desc"), OffsetPage(1, Nil)) }

SpecAnd == InitWith(AndRequests, Tables) /\ [][Next]_vars

\* C1: when the root filter is an AND group of conditions, every returned
\* row is a stored row that satisfies every native child and for which the
\* function registered for every custom child returns true.
C1_AndRootKeepsOnlySatisfyingRows ==
  Succeeded =>
    LET conds == dsl.Filters[1].Group[1].Conditions
    IN \A i \in 1..Len(Returned) :
         \E k \in 1..Len(table) :
           /\ table[k][FIRST_NAME] = Returned[i]
           /\ \A j \in 1..Len(conds) : Holds(conds[j], table[k], fnsAtFilter)

\* A query that returned a row and left out a stored row that satisfies the
\* native children but fails a registered custom child.
C1_Witness ==
  /\ Succeeded
  /\ Len(Returned) > 0
  /\ LET conds == dsl.Filters[1].Group[1].Conditions
     IN \E k \in 1..Len(table) :
          /\ table[k][FIRST_NAME] \notin ReturnedSet
          /\ \E j \in 1..Len(conds) : IsNative(conds[j])
          /\ \A j \in 1..Len(conds) :
               IsNative(conds[j]) => Holds(conds[j], table[k], fnsAtFilter)
          /\ \E j \in 1..Len(conds) :
               /\ IsCustom(conds[j])
               /\ conds[j].Condition[1].Operator \in DOMAIN fnsAtFilter
               /\ ~Holds(conds[j], table[k], fnsAtFilter)

\* ------------------------------------------------- C2, C3: OR with a custom

PremiumOrAdult == Group("or", <<NativePremium, CustomAdult>>)

AdultOrPremium == Group("or", <<CustomAdult, NativePremium>>)

\* The README's mixed filter: premium, or standard and active and adult.
PremiumOrStandardActiveAdult ==
  Group("or", <<NativePremium, Group("and", <<NativeStandard, NativeActive, CustomAdult>>)>>)

YoungOrActiveStandardPremium ==
  Group("or", <<NativeAge, Group("and", <<NativeActive, NativeStandard, CustomPremium>>)>>)

OrRequests ==
  { FirstNames(PremiumOrAdult, <<>>, Nil),
    FirstNames(AdultOrPremium, <<>>, Nil),
    FirstNames(PremiumOrStandardActiveAdult, <<>>, Nil),
    FirstNames(YoungOrActiveStandardPremium, <<>>, Nil) }

SpecOr == InitWith(OrRequests, Tables) /\ [][Next]_vars

\* C2: for an OR group of one native and one custom condition (its function
\* registered), the result is the union of the stored rows that satisfy the
\* native condition and those for which the function returns true.
C2_OrReturnsUnion ==
  (Succeeded /\ dsl.Filters[1] \in {PremiumOrAdult, AdultOrPremium}
     /\ Registered(dsl.Filters[1]))
    => ReturnedSet = Satisfying(dsl.Filters[1])

\* An OR query, is_adult_check registered as testGoFilterIsAdult, that
\* returned without a stored row that satisfies only the custom branch.
C2_Witness ==
  /\ Succeeded
  /\ dsl.Filters[1] \in {PremiumOrAdult, AdultOrPremium}
  /\ Registered(dsl.Filters[1])
  /\ fnsAtFilter["is_adult_check"] = "testGoFilterIsAdult"
  /\ \E k \in 1..Len(table) :
       /\ Holds(CustomAdult, table[k], fnsAtFilter)
       /\ ~Holds(NativePremium, table[k], fnsAtFilter)
       /\ table[k][FIRST_NAME] \notin ReturnedSet

\* C3: for OR[A, AND[B, C, F]] with F custom (its function registered), every
\* returned row satisfies A or (B and C and F).
C3_NestedOrKeepsOnlySatisfyingRows ==
  (Succeeded
     /\ dsl.Filters[1] \in {PremiumOrStandardActiveAdult, YoungOrActiveStandardPremium}
     /\ Registered(dsl.Filters[1]))
    => ReturnedSet \subseteq Satisfying(dsl.Filters[1])

\* A returned row that fails A and fails F (is_adult_check registered as
\* testGoFilterIsAdult) while it satisfies B and C.
C3_Witness ==
  /\ Succeeded
  /\ dsl.Filters[1] = PremiumOrStandardActiveAdult
  /\ Registered(dsl.Filters[1])
  /\ fnsAtFilter["is_adult_check"] = "testGoFilterIsAdult"
  /\ \E k \in 1..Len(table) :
       /\ table[k][FIRST_NAME] \in ReturnedSet
       /\ ~Holds(NativePremium, table[k], fnsAtFilter)
       /\ ~Holds(CustomAdult, table[k], fnsAtFilter)
       /\ Holds(NativeStandard, table[k], fnsAtFilter)
       /\ Holds(NativeActive, table[k], fnsAtFilter)

\* ------------------------------------------------------------------ C4: NOT

NotRequests ==
  { FirstNames(Group("not", <<CustomAdult>>), <<>>, Nil),
    FirstNames(Group("not", <<CustomPremium>>), <<>>, Nil),
    FirstNames(Group("not", <<NativeAdult>>), <<>>, Nil),
    FirstNames(Group("not", <<NativePremium>>), <<>>, Nil) }

SpecNot == InitWith(NotRequests, Tables) /\ [][Next]_vars

\* C4: for a NOT group with one child condition c (custom with its function
\* registered, or native), the result is exactly the stored rows for which c
\* is false.
C4_NotReturnsComplement ==
  (Succeeded /\ Registered(dsl.Filters[1]))
    => ReturnedSet = Satisfying(dsl.Filters[1])

\* A NOT over a native condition that returned without a stored row for
\* which the comparison is false.
C4_Witness ==
  /\ Succeeded
  /\ IsNative(dsl.Filters[1].Group[1].Conditions[1])
  /\ \E k \in 1..Len(table) :
       /\ ~Holds(dsl.Filters[1].Group[1].Conditions[1], table[k], fnsAtFilter)
       /\ table[k][FIRST_NAME] \notin ReturnedSet

\* The custom half of C4: NOT over a registered custom condition returns
\* exactly the stored rows for which the function returns false.
C4_CustomNotReturnsComplement ==
  (Succeeded /\ Registered(dsl.Filters[1])
     /\ IsCustom(dsl.Filters[1].Group[1].Conditions[1]))
    => ReturnedSet = Satisfying(dsl.Filters[1])

\* -------------------------------------------- C5: native conditions and AND

NativeRequests ==
  { FirstNames(NativeAge, <<>>, Nil),
    FirstNames(Group("and", <<NativeAge, NativeActive>>), <<>>, Nil),
    FirstNames(Group("and", <<NativeStandard, Group("and", <<NativeAdult, NativeActive>>)>>),
               <<>>, Nil),
    FirstNames(Group("and", <<NativePremium>>), ByAge("desc"), OffsetPage(1, Nil)) }

SpecNative == InitWith(NativeRequests, Tables) /\ [][Next]_vars

\* C5: when the filter tree holds only native conditions and AND groups, the
\* in-process filter pass keeps every fetched row, in order, looks up and
\* calls no registered function, and does not fail.
C5_NativeAndPassIsIdentity ==
  pc \in {"filtered", "done"} =>
    /\ processedRows = dbRows
    /\ kept = [j \in 1..Len(dbRows) |-> j]
    /\ filterCalls = <<>>
    /\ err = NoError \/ err[1] # "Go filter failed"

\* The pass has just run on fetched rows, the backend having left a stored
\* row out, with a filter function in the registry.
C5_Witness ==
  /\ pc = "filtered"
  /\ Len(dbRows) > 0
  /\ Len(dbRows) < Len(table)
  /\ ~IsNil(dsl.Filters[1].Group)
  /\ DOMAIN goFilterFunctions # {}

\* ------------------------------------------- C6: one custom condition alone

SingleRequests ==
  { FirstNames(CustomAdult, <<>>, Nil),
    FirstNames(CustomPremium, <<>>, Nil),
    FirstNames(CustomAdult, ByAge("desc"), Nil),
    FirstNames(CustomAdult, ByAge("asc"), OffsetPage(1, Nil)) }

SpecSingle == InitWith(SingleRequests, Tables) /\ [][Next]_vars

\* The first names of the fetched rows, in the order the backend returned them.
Fetched == [i \in 1..Len(dbRows) |-> dbRows[i][FIRST_NAME]]

InSatisfying(n) == n \in Satisfying(dsl.Filters[1])

\* The statement has no WHERE clause, and the result is exactly the stored
\* rows the filter states true, in the order the backend returned them.
ExactlySatisfying ==
  /\ \A i \in 1..Len(sqlQuery) : sqlQuery[i] # " WHERE "
  /\ ReturnedSet = Satisfying(dsl.Filters[1])
  /\ Returned = SelectSeq(Fetched, InSatisfying)

\* C6: for a filter that is a single custom condition with a registered
\* function, the statement has no WHERE clause and the result is exactly the
\* stored rows for which the function returns true, in backend order.
C6_SingleCustomReturnsExactlyTrueRows ==
  (Succeeded /\ Registered(dsl.Filters[1])) => ExactlySatisfying

\* A paginated query that returned without a stored row for which the
\* registered function returns true.
C6_Witness ==
  /\ Succeeded
  /\ Registered(dsl.Filters[1])
  /\ ~IsNil(dsl.Pagination)
  /\ fnsAtFilter["is_adult_check"] = "testGoFilterIsAdult"
  /\ Satisfying(dsl.Filters[1]) \ ReturnedSet # {}

\* C6 without pagination: the claim's statement holds for every request
\* that sets no LIMIT.
C6_UnpaginatedReturnsExactlyTrueRows ==
  (Succeeded /\ Registered(dsl.Filters[1]) /\ IsNil(dsl.Pagination))
    => ExactlySatisfying

\* ------------------------------------------ C7: unregistered filter operator

LookupRequests ==
  { FirstNames(CustomAdult, <<>>, Nil),
    FirstNames(Group("and", <<NativeAge, CustomAdult>>), <<>>, Nil),
    FirstNames(Group("and", <<CustomPremium, CustomAdult>>), <<>>, Nil),
    FirstNames(PremiumOrAdult, <<>>, Nil),
    FirstNames(AdultOrPremium, <<>>, Nil),
    FirstNames(Group("not", <<CustomAdult>>), <<>>, Nil) }

SpecLookup == InitWith(LookupRequests, Tables) /\ [][Next]_vars

\* The in-process filter pass has run.
FilterPassRan ==
  \/ pc = "filtered"
  \/ /\ pc = "done"
     /\ \/ err = NoError
        \/ err[1] \notin {"failed to generate SQL query", "failed to execute base query"}

\* The query failed on an unregistered filter operator and returned nothing.
FailedUnregisteredFilter ==
  /\ pc = "done"
  /\ err = Wrapped("Go filter failed", "unregistered Go filter function for operator")
  /\ result = Nil

\* Some custom condition's operator was not registered when the pass ran.
SomeUnregistered ==
  \E c \in CustomConditions(dsl.Filters[1]) : c.Operator \notin DOMAIN fnsAtFilter

RECURSIVE Leftmost(_)
\* The condition a row's evaluation meets first.
Leftmost(f) == IF ~IsNil(f.Condition) THEN f ELSE Leftmost(f.Group[1].Conditions[1])

\* C7 as stated: a filter tree holding a custom condition whose operator is
\* not registered when the pass runs makes the query fail with the
\* unregistered-filter error and no result, whatever the table holds and
\* wherever the condition stands.
C7_UnregisteredFilterAlwaysFails ==
  (FilterPassRan /\ SomeUnregistered) => FailedUnregisteredFilter

\* C7, amended: the query fails with the unregistered-filter error and no
\* result exactly when the pass, row by row with short-circuiting, looks up
\* an operator the registry does not hold; it does so whenever a row was
\* fetched and the first condition met is such a custom condition, and never
\* when no row was fetched.
C7_ReachedUnregisteredFilterFails ==
  FilterPassRan =>
    /\ (\E i \in 1..Len(filterCalls) : ~filterCalls[i].found) <=> FailedUnregisteredFilter
    /\ (/\ Len(dbRows) > 0
        /\ IsCustom(Leftmost(dsl.Filters[1]))
        /\ Leftmost(dsl.Filters[1]).Condition[1].Operator \notin DOMAIN fnsAtFilter)
         => FailedUnregisteredFilter
    /\ Len(dbRows) = 0 => ~FailedUnregisteredFilter

\* The failure met after an earlier registered function was called: the
\* unregistered condition is not the first one evaluated.
C7_Witness ==
  /\ FailedUnregisteredFilter
  /\ Len(filterCalls) > 1
  /\ filterCalls[1].found

\* A pass over fetched rows that succeeded although an operator of the tree
\* was not registered: no row's evaluation reached it.
C7_SkippedWitness ==
  /\ pc = "filtered"
  /\ SomeUnregistered
  /\ Len(dbRows) > 0

\* ------------------------------------- C8, C9: computed items, the outcomes

FULL_NAME == Name("full_name")

FullName ==
  Projection(<<ProjectionField(FIRST_NAME)>>, <<>>, <<Computed(FULL_NAME_CALC, FULL_NAME)>>)

\* display_name needs first_name and last_name, which only full_name_calc
\* makes determineFieldsToSelect fetch.
IdAndDisplayName ==
  Projection(<<ProjectionField(ID)>>, <<>>, <<Computed(DISPLAY_NAME, <<>>)>>)

FullAndDisplayName ==
  Projection(<<ProjectionField(FIRST_NAME)>>, <<>>,
             <<Computed(FULL_NAME_CALC, FULL_NAME), Computed(DISPLAY_NAME, <<>>)>>)

ComputeRequests ==
  { Request(USERS, QueryDSL(Nil, <<>>, Nil, FullName)),
    Request(USERS, QueryDSL(<<NativeAge>>, <<>>, Nil, FullAndDisplayName)),
    Request(USERS, QueryDSL(<<CustomAdult>>, <<>>, Nil, FullName)),
    Request(USERS, QueryDSL(<<CustomAdult>>, <<>>, Nil, IdAndDisplayName)) }

SpecCompute == InitWith(ComputeRequests, Tables) /\ [][Next]_vars

\* The compute pass has run.
ComputePassRan ==
  /\ pc = "done"
  /\ \/ err = NoError
     \/ err[1] \notin {"failed to generate SQL query", "failed to execute base query",
                       "Go filter failed"}

\* The function-call items of the projection, in order.
Items ==
  LET cs == dsl.Projection[1].Computed
      F[j \in 0..Len(cs)] ==
        IF j = 0 THEN <<>>
        ELSE IF IsNil(cs[j].ComputedFieldExpression) THEN F[j - 1]
        ELSE Append(F[j - 1], cs[j].ComputedFieldExpression[1])
  IN F[Len(cs)]

FailedUnregisteredCompute ==
  /\ pc = "done"
  /\ err = Wrapped("Go computed field failed", "unregistered Go compute function")
  /\ result = Nil

SomeUnregisteredCompute ==
  \E j \in 1..Len(Items) : Items[j].Function \notin DOMAIN fnsAtCompute

\* C8 as stated: a computed item naming a function that is not in the
\* compute registry makes the query fail with the unregistered-compute error
\* and no result, also when no row survived the filter pass.
C8_UnregisteredComputeAlwaysFails ==
  (ComputePassRan /\ SomeUnregisteredCompute) => FailedUnregisteredCompute

\* C8, amended: when at least one row survived the filter pass, a computed
\* item naming an unregistered function makes the query fail with no result,
\* with the unregistered-compute error if it is the first item (in general:
\* exactly when the pass looks the name up); when no row survived, the query
\* succeeds with an empty result.
C8_UnregisteredComputeFailsOnRows ==
  ComputePassRan =>
    /\ (Len(processedRows) > 0 /\ SomeUnregisteredCompute)
         => (err # NoError /\ result = Nil)
    /\ (Len(processedRows) > 0 /\ Items[1].Function \notin DOMAIN fnsAtCompute)
         => FailedUnregisteredCompute
    /\ (\E i \in 1..Len(computeCalls) : ~computeCalls[i].found)
         <=> FailedUnregisteredCompute
    /\ Len(processedRows) = 0 => (Succeeded /\ result = <<<<>>>>)

\* The failure on the second item of a row, the first having been computed.
C8_Witness ==
  /\ FailedUnregisteredCompute
  /\ Len(processedRows) > 0
  /\ Len(computeCalls) = 2
  /\ computeCalls[1].found

\* A query that succeeded with an empty result although its computed item
\* names an unregistered function and the table is not empty.
C8_EmptyWitness ==
  /\ Succeeded
  /\ SomeUnregisteredCompute
  /\ Len(table) > 0
  /\ result = <<<<>>>>

\* The names a returned row must hold: the included fields and the aliases.
ProjectedNames ==
  {dsl.Projection[1].Include[j].Name : j \in 1..Len(dsl.Projection[1].Include)}
    \cup {Alias(Items[j]) : j \in 1..Len(Items)}

\* Returned row i is fetched row kept[i]: it passed the filter pass, holds
\* every computed item's value under its alias, and is cut to the projection.
FullyProcessed(i) ==
  LET row == dbRows[kept[i]]
      r == result[1][i]
  IN /\ IsNil(dsl.Filters)
          \/ evaluateGoFilter(row, dsl.Filters[1], fnsAtFilter).passes
     /\ DOMAIN r = ProjectedNames
     /\ \A j \in 1..Len(dsl.Projection[1].Include) :
          r[dsl.Projection[1].Include[j].Name] = row[dsl.Projection[1].Include[j].Name]
     /\ \A j \in 1..Len(Items) :
          /\ Items[j].Function \in DOMAIN fnsAtCompute
          /\ Out(r[Alias(Items[j])], "") = CallCompute(fnsAtCompute[Items[j].Function], row)

AllCalls == filterCalls \o computeCalls

\* C9: a Query call ends either with an error and a nil result, or with a
\* result whose every row passed the filter pass, had every computed item
\* applied and was projected; and once a registered function has returned an
\* error, the outcome is the error and no rows.
C9_ErrorOrFullyProcessed ==
  /\ pc # "done" => (result = Nil /\ err = NoError)
  /\ pc = "done" =>
       \/ err # NoError /\ result = Nil
       \/ /\ err = NoError
          /\ ~IsNil(result)
          /\ Len(result[1]) = Len(kept)
          /\ \A i \in 1..Len(kept) : FullyProcessed(i)
  /\ (\E i \in 1..Len(AllCalls) : AllCalls[i].err # "")
       => (pc = "done" /\ err # NoError /\ result = Nil)

\* The error outcome after work was done: the filter pass kept rows, then a
\* registered compute function returned an error.
C9_Witness ==
  /\ pc = "done"
  /\ err # NoError
  /\ result = Nil
  /\ Len(kept) > 0
  /\ Len(filterCalls) > 0
  /\ \E i \in 1..Len(computeCalls) : computeCalls[i].err # ""

\* The result outcome: rows dropped by a custom filter, the others returned
\* with their computed value.
C9_ResultWitness ==
  /\ Succeeded
  /\ Len(result[1]) > 0
  /\ Len(kept) < Len(dbRows)
  /\ Len(computeCalls) > 0

\* ------------------------------------------------- C10: quoted identifiers

DROP == "; DROP TABLE users; --"

\* What a caller's name is made of: plain text, quotes, statement text.
NameAtoms == {"age", DQ, DROP}

Names == UNION {[1..k -> NameAtoms] : k \in 1..MaxNameLen}

\* A request with the name n as the table, as a projection field, as a
\* native or a custom filter field, or as a sort field.
QuoteRequests ==
  UNION {
    { Request(n, QueryDSL(<<NativeAge>>, ByAge("asc"), Nil, IncludeFirstName)),
      Request(USERS, QueryDSL(<<NativeAge>>, ByAge("asc"), Nil,
                              Projection(<<ProjectionField(n)>>, <<>>, <<>>))),
      Request(USERS, QueryDSL(<<Group("and", <<NativeAge, Cond(n, "eq", IntV(25))>>)>>,
                              <<>>, Nil, IncludeFirstName)),
      Request(USERS, QueryDSL(<<Cond(n, "is_adult_check", NilV)>>,
                              <<>>, Nil, IncludeFirstName)),
      Request(USERS, QueryDSL(Nil, <<SortCfg(FIRST_NAME, "asc"), SortCfg(n, "desc")>>,
                              OffsetPage(1, <<1>>), IncludeFirstName)) }
    : n \in Names }

SpecQuote == InitWith(QuoteRequests, {SeqOfSet({1, 2})}) /\ [][Next]_vars

RECURSIVE NativeFields(_)
\* The fields of the native conditions of a filter tree, in order.
NativeFields(f) ==
  IF ~IsNil(f.Condition)
  THEN IF IsCustom(f) THEN <<>> ELSE <<f.Condition[1].Field>>
  ELSE LET cs == f.Group[1].Conditions
           F[j \in 0..Len(cs)] == IF j = 0 THEN <<>> ELSE F[j - 1] \o NativeFields(cs[j])
       IN F[Len(cs)]

\* The names the statement must carry, in the order the generator writes them.
StatementNames ==
  fieldsToSelect \o <<tableName>>
    \o (IF IsNil(dsl.Filters) THEN <<>> ELSE NativeFields(dsl.Filters[1]))
    \o [j \in 1..Len(dsl.Sort) |-> dsl.Sort[j].Field]

IsIdTok(t) == t.k = "id"

\* The identifiers among the tokens, in order.
Identifiers(toks) ==
  LET ids == SelectSeq(toks, IsIdTok)
  IN [j \in 1..Len(ids) |-> ids[j].v]

\* No text outside a quoted identifier is made of a caller's atom.
NoNameOutsideQuotes(toks) ==
  \A j \in 1..Len(toks) : toks[j].k = "raw" => toks[j].v[1] \notin NameAtoms

\* C10: in the generated SELECT every table, projection, filter and sort name
\* stands only inside double quotes with its own quotes doubled: the backend
\* reads back exactly these names as identifiers, nothing of a name outside
\* quotes, and one SELECT of the requested shape.
C10_NamesStayQuoted ==
  pc # "start" =>
    LET lx == Lex(sqlQuery)
        st == ParseSelect(sqlQuery)
    IN /\ lx.ok
       /\ Identifiers(lx.toks) = StatementNames
       /\ NoNameOutsideQuotes(lx.toks)
       /\ st.ok
       /\ st.table = tableName
       /\ st.cols = fieldsToSelect
       /\ Len(st.order) = Len(dsl.Sort)
       /\ st.np = Len(queryParams)

\* A statement generated for a name that closes a quote and goes on with
\* statement text.
C10_Witness ==
  /\ pc # "start"
  /\ \E j \in 1..Len(StatementNames) : StatementNames[j] = <<DQ, DROP>>
  /\ \E j \in 1..Len(sqlQuery) - 1 : sqlQuery[j] = DQ /\ sqlQuery[j + 1] = DQ

\* ------------------------------------- C11: values travel as parameters

INJECT == "Alice' OR 1=1; --"

\* What a caller's condition value can be: numbers, text, statement text.
ScalarValues == {IntV(18), IntV(30), TextV(<<"Alice">>), TextV(<<INJECT>>)}

\* Requests that differ only in the value v of their native conditions.
ValueRequests ==
  UNION {
    { FirstNames(Cond(FIRST_NAME, "eq", v), <<>>, Nil),
      FirstNames(Cond(FIRST_NAME, "contains", v), <<>>, Nil),
      FirstNames(Cond(AGE, "in", ListV(<<v, IntV(25)>>)), <<>>, Nil),
      FirstNames(Cond(AGE, "nin", ListV(<<v>>)), <<>>, Nil),
      FirstNames(Group("and", <<Cond(AGE, "gte", v), CustomAdult>>), <<>>, Nil),
      FirstNames(Group("or", <<Cond(AGE, "lt", v), Cond(FIRST_NAME, "neq", v)>>),
                 ByAge("asc"), OffsetPage(1, Nil)) }
    : v \in ScalarValues }

SpecValue ==
  InitWith(ValueRequests, {SeqOfSet({1}), SeqOfSet({1, 2})}) /\ [][Next]_vars

BlankValue(v) ==
  IF v.t = "list" THEN ListV([j \in 1..Len(v.l) |-> NilV]) ELSE NilV

RECURSIVE Blank(_)
\* A filter tree with the values of its native conditions taken out (a list
\* keeps its length).
Blank(f) ==
  IF ~IsNil(f.Condition)
  THEN IF IsCustom(f) THEN f
       ELSE Cond(f.Condition[1].Field, f.Condition[1].Operator,
                 BlankValue(f.Condition[1].Value))
  ELSE Group(f.Group[1].Operator,
             [j \in 1..Len(f.Group[1].Conditions) |-> Blank(f.Group[1].Conditions[j])])

\* Request r is the running request but for the values of native conditions.
SameButValues(r) ==
  /\ r.tableName = tableName
  /\ r.dsl.Sort = dsl.Sort
  /\ r.dsl.Pagination = dsl.Pagination
  /\ r.dsl.Projection = dsl.Projection
  /\ Blank(r.dsl.Filters[1]) = Blank(dsl.Filters[1])

\* The statement generated for request r with the fields of the running one.
StatementFor(r) ==
  Generate(r.tableName,
           <<[r.dsl EXCEPT !.Projection =
                Projection([j \in 1..Len(fieldsToSelect) |->
                              ProjectionField(fieldsToSelect[j])], <<>>, <<>>)]>>)

RECURSIVE FlatValues(_)
\* The values of the native conditions of a filter tree, in order.
FlatValues(f) ==
  IF ~IsNil(f.Condition)
  THEN IF IsCustom(f) THEN <<>>
       ELSE IF f.Condition[1].Value.t = "list" THEN f.Condition[1].Value.l
       ELSE <<f.Condition[1].Value>>
  ELSE LET cs == f.Group[1].Conditions
           F[j \in 0..Len(cs)] == IF j = 0 THEN <<>> ELSE F[j - 1] \o FlatValues(cs[j])
       IN F[Len(cs)]

\* No atom of a value's text stands in the statement.
NoValueText(sql, f) ==
  LET vs == FlatValues(f)
  IN \A j \in 1..Len(vs) : \A k \in 1..Len(sql) :
       sql[k] \notin {Sprintv(vs[j])[n] : n \in 1..Len(Sprintv(vs[j]))}

\* C11: the generated statement text does not depend on condition values:
\* every request that is the running one but for the scalar values of its
\* native conditions (IN / NOT IN lists of equal length) generates the same
\* statement text; the values are only in the parameter list, one parameter
\* per value, and no text of a value is in the statement.
C11_StatementIndependentOfValues ==
  pc # "start" =>
    /\ \A r \in ValueRequests :
         SameButValues(r) =>
           LET g == StatementFor(r)
           IN /\ g.err = ""
              /\ g.sql = sqlQuery
              /\ Len(g.params) = Len(queryParams)
    /\ Len(queryParams) = Len(FlatValues(dsl.Filters[1]))
    /\ NoValueText(sqlQuery, dsl.Filters[1])

\* A statement generated for a value made of statement text, which went into
\* the parameter list, while another request of the same shape has another
\* value.
C11_Witness ==
  /\ pc = "done"
  /\ err = NoError
  /\ dsl.Filters[1] = Cond(FIRST_NAME, "eq", TextV(<<INJECT>>))
  /\ queryParams = <<TextV(<<INJECT>>)>>
  /\ Len(sqlQuery) > 0
  /\ \E r \in ValueRequests : SameButValues(r) /\ r.dsl # dsl

\* ------------------------------- C12: custom conditions leave no fragment

AdultOrPremiumCustom == Group("or", <<CustomAdult, CustomPremium>>)

SkipRequests ==
  { FirstNames(CustomAdult, <<>>, Nil),
    FirstNames(Group("and", <<CustomAdult, CustomPremium>>), <<>>, Nil),
    FirstNames(Group("nor", <<CustomAdult, CustomPremium>>), <<>>, Nil),
    FirstNames(Group("and", <<AdultOrPremiumCustom, NativeAge>>), <<>>, Nil),
    FirstNames(Group("or", <<NativePremium, Group("not", <<CustomAdult>>)>>), <<>>, Nil),
    FirstNames(Group("and", <<NativeAge, CustomAdult, NativeActive>>), <<>>, Nil) }

SpecSkip == InitWith(SkipRequests, Tables) /\ [][Next]_vars

RECURSIVE Prune(_)
\* A filter tree without its custom conditions and without the groups left
\* with no child: a pointer, nil when nothing is left.
Prune(f) ==
  IF ~IsNil(f.Condition)
  THEN IF IsCustom(f) THEN Nil ELSE <<f>>
  ELSE LET cs == f.Group[1].Conditions
           K[j \in 0..Len(cs)] == IF j = 0 THEN <<>> ELSE K[j - 1] \o Prune(cs[j])
       IN IF Len(K[Len(cs)]) = 0 THEN Nil
          ELSE <<Group(f.Group[1].Operator, K[Len(cs)])>>

\* The statement generated for the running request with its filter tree
\* replaced by the pointer filters.
StatementWith(filters) ==
  Generate(tableName,
           <<[dsl EXCEPT !.Filters = filters,
                         !.Projection =
                           Projection([j \in 1..Len(fieldsToSelect) |->
                                         ProjectionField(fieldsToSelect[j])], <<>>, <<>>)]>>)

HasAtom(text, a) == \E k \in 1..Len(text) : text[k] = a

CountAtom(text, a) == Cardinality({k \in 1..Len(text) : text[k] = a})

Generation == pc # "start" /\ (err = NoError \/ err[1] # "failed to generate SQL query")

\* C12: a custom condition produces no fragment and appends no parameter, a
\* group drops the children that produced no fragment, and a group whose
\* children all produced none produces none: the statement and parameters
\* are those of the tree without its custom conditions and emptied groups,
\* with one placeholder and one parameter per native value, and with no
\* WHERE clause and no parameter when nothing but custom conditions is in
\* the tree.
C12_CustomConditionsLeaveNoFragment ==
  Generation =>
    LET native == Prune(dsl.Filters[1])
        g == StatementWith(native)
    IN /\ g.err = ""
       /\ sqlQuery = g.sql
       /\ queryParams = g.params
       /\ Len(queryParams) = Len(FlatValues(dsl.Filters[1]))
       /\ CountAtom(sqlQuery, "?") = Len(queryParams)
       /\ IsNil(native) => ~HasAtom(sqlQuery, " WHERE ") /\ queryParams = <<>>

\* A query that ran with a nested group of custom conditions only, dropped
\* from the WHERE clause of its parent, and returned a row.
C12_Witness ==
  /\ Succeeded
  /\ dsl.Filters[1] = Group("and", <<AdultOrPremiumCustom, NativeAge>>)
  /\ HasAtom(sqlQuery, " WHERE ")
  /\ ~HasAtom(sqlQuery, " OR ")
  /\ Len(queryParams) = 1
  /\ Len(result[1]) > 0

\* A query that ran with a tree of custom conditions only: no WHERE clause.
C12_NoWhereWitness ==
  /\ Succeeded
  /\ IsNil(Prune(dsl.Filters[1]))
  /\ ~IsNil(dsl.Filters[1].Group)
  /\ ~HasAtom(sqlQuery, " WHERE ")
  /\ Len(result[1]) > 0

\* -------------------------------------------- C13: NOT and XOR arity

ArityRequests ==
  { FirstNames(Group("not", <<NativeAge, NativeActive>>), <<>>, Nil),
    FirstNames(Group("not", <<NativeAge, CustomAdult>>), <<>>, Nil),
    FirstNames(Group("not", <<CustomAdult, CustomPremium>>), <<>>, Nil),
    FirstNames(Group("xor", <<CustomAdult>>), <<>>, Nil),
    FirstNames(Group("xor", <<NativeAge, NativePremium, NativeActive>>), <<>>, Nil),
    FirstNames(Group("and", <<NativeAge, Group("not", <<>>)>>), <<>>, Nil),
    FirstNames(Group("not", <<CustomAdult>>), <<>>, Nil) }

SpecArity == InitWith(ArityRequests, Tables) /\ [][Next]_vars

RECURSIVE HasArityViolation(_)
\* The tree contains a NOT group without exactly one child or an XOR group
\* without exactly two.
HasArityViolation(f) ==
  /\ ~IsNil(f.Group)
  /\ LET g == f.Group[1]
     IN \/ g.Operator = "not" /\ Len(g.Conditions) # 1
        \/ g.Operator = "xor" /\ Len(g.Conditions) # 2
        \/ \E j \in 1..Len(g.Conditions) : HasArityViolation(g.Conditions[j])

GenerationFailed ==
  /\ pc = "done"
  /\ err # NoError
  /\ err[1] = "failed to generate SQL query"
  /\ sqlQuery = <<>>
  /\ result = Nil

\* C13: SQL generation fails with an error and returns no statement for
\* every filter tree that contains a NOT group whose number of children is
\* not exactly one or an XOR group whose number of children is not exactly
\* two, whatever mix of native and custom children the group has.
C13_ArityViolationFailsGeneration ==
  (pc # "start" /\ HasArityViolation(dsl.Filters[1])) => GenerationFailed

\* A NOT group of a native and a custom condition: a statement was generated
\* and run, and the query returned a result without any error.
C13_Witness ==
  /\ Succeeded
  /\ dsl.Filters[1] = Group("not", <<NativeAge, CustomAdult>>)
  /\ HasAtom(sqlQuery, "NOT (")
  /\ Len(table) > 0

\* The arity is counted on the fragments the children produced: generation
\* fails for a NOT group with more than one native child and for an XOR
\* group with a native child.
C13_NativeArityViolationFailsGeneration ==
  (/\ pc # "start"
   /\ \/ dsl.Filters[1] = Group("not", <<NativeAge, NativeActive>>)
      \/ dsl.Filters[1] = Group("xor", <<NativeAge, NativePremium, NativeActive>>))
    => GenerationFailed

\* ------------------------------------ C14: NOR and XOR of native children

NorXorRequests ==
  { FirstNames(Group("nor", <<NativeAge, NativeActive>>), <<>>, Nil),
    FirstNames(Group("xor", <<NativeAge, NativePremium>>), <<>>, Nil),
    FirstNames(Group("nor", <<NativeAge>>), <<>>, Nil),
    FirstNames(Group("and", <<CustomAdult, Group("nor", <<NativeAge, NativeActive>>)>>),
               <<>>, Nil),
    FirstNames(Group("or", <<NativePremium,
                             Group("not", <<Group("xor", <<NativeAge, NativeActive>>)>>)>>),
               <<>>, Nil),
    FirstNames(Group("nor", <<CustomAdult, CustomPremium>>), <<>>, Nil),
    FirstNames(Group("xor", <<CustomAdult, CustomPremium>>), <<>>, Nil) }

SpecNorXor == InitWith(NorXorRequests, Tables) /\ [][Next]_vars

RECURSIVE HasNativeNorXor(_)
\* The tree contains a NOR or XOR group with children that are all native
\* conditions.
HasNativeNorXor(f) ==
  /\ ~IsNil(f.Group)
  /\ LET g == f.Group[1]
     IN \/ /\ g.Operator \in {"nor", "xor"}
           /\ Len(g.Conditions) > 0
           /\ \A j \in 1..Len(g.Conditions) : IsNative(g.Conditions[j])
        \/ \E j \in 1..Len(g.Conditions) : HasNativeNorXor(g.Conditions[j])

\* C14: SQL generation fails with an error for every filter tree containing
\* a NOR or XOR group all of whose children are native conditions; no
\* statement is returned, nothing is executed and no row is fetched.
C14_NativeNorXorFailsGeneration ==
  HasNativeNorXor(dsl.Filters[1]) =>
    /\ pc \in {"start", "done"}
    /\ pc = "done" => GenerationFailed /\ dbRows = <<>> /\ dbSrc = <<>>

\* A query refused at generation for a NOR group of native conditions nested
\* next to a custom condition, on a table with rows.
C14_Witness ==
  /\ GenerationFailed
  /\ dsl.Filters[1] =
       Group("and", <<CustomAdult, Group("nor", <<NativeAge, NativeActive>>)>>)
  /\ err[2] = "error building WHERE clause"
  /\ Len(table) > 0

\* --------------------------------------- C15, C16: LIMIT and OFFSET

IdAndFirstName ==
  Projection(<<ProjectionField(ID), ProjectionField(FIRST_NAME)>>, <<>>, <<>>)

Paginations ==
  { Nil, CursorPage(2), OffsetPage(2, Nil), OffsetPage(2, <<0>>),
    OffsetPage(1, <<1>>), OffsetPage(0, <<2>>), OffsetPage(1, <<-1>>),
    OffsetPage(-1, <<1>>), OffsetPage(-2, Nil) }

\* The request of the pagination test, under every pagination.
PageRequests ==
  { Request(USERS, QueryDSL(Nil, <<SortCfg(ID, "asc")>>, pagination, IdAndFirstName))
    : pagination \in Paginations }

SpecPage == InitWith(PageRequests, Tables) /\ [][Next]_vars

OffsetBased == ~IsNil(dsl.Pagination) /\ dsl.Pagination[1].Type = "offset"

\* The atom after the first atom a of the text.
AtomAfter(text, a) ==
  text[(CHOOSE k \in 1..Len(text) : text[k] = a /\ \A n \in 1..(k - 1) : text[n] # a) + 1]

\* C15: the generated SELECT contains a LIMIT clause only when pagination is
\* offset-based (then with the request's limit), and an OFFSET clause only
\* when pagination is offset-based and the offset is non-zero (then with the
\* request's offset); a missing offset is treated as 0; with cursor
\* pagination or no pagination neither clause is emitted.
C15_LimitOffsetOnlyForOffsetPagination ==
  Generation =>
    /\ HasAtom(sqlQuery, " LIMIT ") =>
         /\ OffsetBased
         /\ CountAtom(sqlQuery, " LIMIT ") = 1
         /\ <<AtomAfter(sqlQuery, " LIMIT ")>> = IntText(dsl.Pagination[1].Limit)
    /\ HasAtom(sqlQuery, " OFFSET ") =>
         /\ OffsetBased
         /\ ~IsNil(dsl.Pagination[1].Offset)
         /\ dsl.Pagination[1].Offset[1] # 0
         /\ CountAtom(sqlQuery, " OFFSET ") = 1
         /\ <<AtomAfter(sqlQuery, " OFFSET ")>> = IntText(dsl.Pagination[1].Offset[1])
    /\ (OffsetBased /\ dsl.Pagination[1].Limit >= 0) => HasAtom(sqlQuery, " LIMIT ")
    /\ (OffsetBased /\ IsNil(dsl.Pagination[1].Offset)) =>
         LET z == Generate(tableName,
                           <<[dsl EXCEPT !.Pagination = OffsetPage(dsl.Pagination[1].Limit, <<0>>),
                                         !.Projection =
                                           Projection([j \in 1..Len(fieldsToSelect) |->
                                                         ProjectionField(fieldsToSelect[j])],
                                                      <<>>, <<>>)]>>)
         IN z.sql = sqlQuery /\ ~HasAtom(sqlQuery, " OFFSET ")

\* A query with limit 1 and offset 1 on a table of two rows: the statement
\* has both clauses and the second row came back.
C15_Witness ==
  /\ Succeeded
  /\ dsl.Pagination = OffsetPage(1, <<1>>)
  /\ HasAtom(sqlQuery, " LIMIT ")
  /\ HasAtom(sqlQuery, " OFFSET ")
  /\ Len(table) = 2
  /\ Len(result[1]) = 1
  /\ result[1][1][ID] = table[2][ID]

\* A query with cursor pagination: no clause, every row came back.
C15_CursorWitness ==
  /\ Succeeded
  /\ dsl.Pagination = CursorPage(2)
  /\ ~HasAtom(sqlQuery, " LIMIT ")
  /\ ~HasAtom(sqlQuery, " OFFSET ")
  /\ Len(table) = 2
  /\ Len(result[1]) = 2

NegativeLimit == OffsetBased /\ dsl.Pagination[1].Limit < 0

\* C16: a request with offset pagination and a negative limit is rejected
\* with a malformed-request error at generation time: no statement is
\* returned and nothing is executed against the backend.
C16_NegativeLimitRejected ==
  NegativeLimit =>
    /\ pc \in {"start", "done"}
    /\ pc = "done" => GenerationFailed /\ dbRows = <<>>

\* A query with limit -2: the statement carries LIMIT -2, it was run, and
\* every row of the table came back without error.
C16_Witness ==
  /\ Succeeded
  /\ dsl.Pagination = OffsetPage(-2, Nil)
  /\ HasAtom(sqlQuery, " LIMIT ")
  /\ AtomAfter(sqlQuery, " LIMIT ") = "-2"
  /\ Len(table) = 2
  /\ Len(result[1]) = 2

\* ------------------------------------------ C17: the include projection

NICKNAME == Name("nickname")

FirstNameAndCalc ==
  Projection(<<ProjectionField(FIRST_NAME)>>, <<ProjectionField(ID)>>,
             <<Computed(FULL_NAME_CALC, <<>>), CaseItem>>)

IncludeRequests ==
  { Request(USERS, QueryDSL(<<CustomAdult>>, <<>>, Nil, IncludeFirstName)),
    Request(USERS, QueryDSL(Nil, <<>>, Nil,
                            Projection(<<ProjectionField(ID)>>, <<>>,
                                       <<Computed(FULL_NAME_CALC, FULL_NAME)>>))),
    Request(USERS, QueryDSL(<<CustomPremium>>, <<>>, Nil, FirstNameAndCalc)),
    Request(USERS, QueryDSL(Nil, <<SortCfg(ID, "asc")>>, Nil,
                            Projection(<<ProjectionField(FIRST_NAME), ProjectionField(AGE)>>,
                                       <<>>, <<>>))),
    Request(USERS, QueryDSL(Nil, <<>>, Nil,
                            Projection(<<ProjectionField(NICKNAME), ProjectionField(FIRST_NAME)>>,
                                       <<>>, <<>>))) }

SpecInclude == InitWith(IncludeRequests, Tables) /\ [][Next]_vars

IncludeNames ==
  {dsl.Projection[1].Include[j].Name : j \in 1..Len(dsl.Projection[1].Include)}

Aliases == {Alias(Items[j]) : j \in 1..Len(Items)}

\* C17: when the include list is non-empty, the key set of every result row
\* is exactly the include names that were fetched plus the aliases of the
\* computed items, each with the value fetched or computed for it; a field
\* fetched only because a custom filter or a compute function depends on it
\* is not in the result.
C17_IncludeKeepsListedFieldsAndAliases ==
  (Succeeded /\ ~IsNil(dsl.Projection) /\ Len(dsl.Projection[1].Include) > 0) =>
    /\ Len(result[1]) = Len(kept)
    /\ \A i \in 1..Len(kept) :
         LET row == dbRows[kept[i]]
             r == result[1][i]
         IN /\ DOMAIN r = (IncludeNames \cap DOMAIN row) \cup Aliases
            /\ \A f \in (DOMAIN row \cup {fieldsToSelect[j] : j \in 1..Len(fieldsToSelect)})
                        \ (IncludeNames \cup Aliases) : f \notin DOMAIN r
            /\ \A f \in (IncludeNames \cap DOMAIN row) \ Aliases : r[f] = row[f]
            /\ \A j \in 1..Len(Items) :
                 Out(r[Alias(Items[j])], "")
                   = CallCompute(fnsAtCompute[Items[j].Function], row)

\* A returned row with the included field and the computed alias, without
\* the fields fetched for the custom filter and the compute function.
C17_Witness ==
  /\ Succeeded
  /\ dsl.Projection = FirstNameAndCalc
  /\ Len(result[1]) > 0
  /\ DOMAIN result[1][1] = {FIRST_NAME, FULL_NAME_CALC}
  /\ {ACCESS_LEVEL, LAST_NAME} \subseteq DOMAIN dbRows[kept[1]]

\* An include name that is no column of the table is not in the result.
C17_UnfetchedWitness ==
  /\ Succeeded
  /\ NICKNAME \in IncludeNames
  /\ Len(result[1]) > 0
  /\ DOMAIN result[1][1] = {FIRST_NAME}

\* ------------------------------------------ C18: the exclude projection

Excluding(names, computed) ==
  Projection(<<>>, [j \in 1..Len(names) |-> ProjectionField(names[j])], computed)

ExcludeRequests ==
  { Request(USERS, QueryDSL(Nil, <<SortCfg(ID, "asc")>>, Nil,
                            Excluding(<<ID, AGE>>, <<>>))),
    Request(USERS, QueryDSL(<<CustomAdult>>, <<>>, Nil, Excluding(<<ID>>, <<>>))),
    Request(USERS, QueryDSL(<<CustomAdult>>, <<>>, Nil, Excluding(<<AGE>>, <<>>))),
    Request(USERS, QueryDSL(Nil, <<>>, Nil,
                            Excluding(<<AGE>>, <<Computed(FULL_NAME_CALC, FULL_NAME)>>))),
    Request(USERS, QueryDSL(<<NativeAge>>, <<>>, Nil,
                            Excluding(<<ACCESS_LEVEL>>, <<Computed(DISPLAY_NAME, <<>>)>>))) }

SpecExclude == InitWith(ExcludeRequests, Tables) /\ [][Next]_vars

ExcludeNames ==
  {dsl.Projection[1].Exclude[j].Name : j \in 1..Len(dsl.Projection[1].Exclude)}

ExcludeOnly ==
  /\ ~IsNil(dsl.Projection)
  /\ Len(dsl.Projection[1].Include) = 0
  /\ Len(dsl.Projection[1].Exclude) > 0

\* Result row i holds every column of the table that is not excluded.
KeepsTheRest(i) == (ColumnSet \ ExcludeNames) \subseteq DOMAIN result[1][i]

\* C18: when the include list is empty and the exclude list is not, every
\* result row contains every column of the table that is not named in
\* exclude, and none that is, also when the filter tree contains a custom
\* condition or the projection has computed items.
C18_ExcludeKeepsEveryOtherColumn ==
  (Succeeded /\ ExcludeOnly) =>
    \A i \in 1..Len(result[1]) :
      /\ KeepsTheRest(i)
      /\ DOMAIN result[1][i] \cap ExcludeNames = {}

\* A returned row that lacks columns nobody excluded: only the custom
\* filter's field was fetched.
C18_Witness ==
  /\ Succeeded
  /\ ExcludeOnly
  /\ dsl.Filters = <<CustomAdult>>
  /\ ExcludeNames = {ID}
  /\ fieldsToSelect = <<AGE>>
  /\ Len(result[1]) > 0
  /\ DOMAIN result[1][1] = {AGE}

\* What holds: no excluded name is in a result row, and every other column
\* is when no custom condition and no full_name_calc item made the
\* orchestrator list fields (the statement selects *).
C18_ExcludeOnSelectAll ==
  (Succeeded /\ ExcludeOnly) =>
    \A i \in 1..Len(result[1]) :
      /\ DOMAIN result[1][i] \cap ExcludeNames = {}
      /\ fieldsToSelect = <<>> =>
           DOMAIN result[1][i] = (ColumnSet \ ExcludeNames) \cup Aliases

\* ------------------------------- C19: the final projection, applied twice

\* The keys a processed row can hold: columns, and the aliases of computed
\* items.
RowKeys == {ID, FIRST_NAME, FULL_NAME, FULL_NAME_CALC}

KeyValues(k) ==
  CASE k = ID -> {IntV(1), IntV(2)}
    [] k = FIRST_NAME -> {TextV(<<"Alice">>)}
    [] OTHER -> {TextV(<<"Alice", " ", "Smith">>)}

\* Every row over some of the keys.
Rows ==
  UNION {{r \in [K -> UNION {KeyValues(k) : k \in K}] : \A k \in K : r[k] \in KeyValues(k)}
         : K \in SUBSET RowKeys}

RowLists == UNION {[1..n -> Rows] : n \in 0..MaxRows}

Includes ==
  { <<>>, <<ProjectionField(ID)>>, <<ProjectionField(FIRST_NAME), ProjectionField(ID)>>,
    <<ProjectionField(FULL_NAME)>>, <<ProjectionField(NICKNAME)>> }

Excludes ==
  { <<>>, <<ProjectionField(FULL_NAME)>>,
    <<ProjectionField(FIRST_NAME), ProjectionField(ID)>> }

ComputedLists ==
  { <<>>, <<Computed(FULL_NAME_CALC, FULL_NAME)>>,
    <<Computed(FULL_NAME_CALC, <<>>), CaseItem>> }

\* Every projection configuration, and no projection.
Projections ==
  {Nil} \cup {Projection(i, e, c) : i \in Includes, e \in Excludes, c \in ComputedLists}

\* applyFinalProjection about to be applied to some rows under some
\* configuration.
InitProjection ==
  /\ table = <<>>
  /\ goFilterFunctions = EmptyMap
  /\ goComputeFunctions = EmptyMap
  /\ pc = "rows"
  /\ tableName = USERS
  /\ \E p \in Projections : dsl = QueryDSL(Nil, <<>>, Nil, p)
  /\ fieldsToSelect = <<>>
  /\ sqlQuery = <<>>
  /\ queryParams = <<>>
  /\ dbRows = <<>>
  /\ processedRows \in RowLists
  /\ result = Nil
  /\ err = NoError
  /\ dbSrc = <<>>
  /\ kept = <<>>
  /\ filterCalls = <<>>
  /\ computeCalls = <<>>
  /\ fnsAtFilter = EmptyMap
  /\ fnsAtCompute = EmptyMap
  /\ InitElsewhere

\* finalResults := e.applyFinalProjection(processedRows, dsl.Projection)
ProjectOnce ==
  /\ pc = "rows"
  /\ result' = <<applyFinalProjection(processedRows, dsl.Projection)>>
  /\ pc' = "projected"
  /\ UNCHANGED <<registries, request, fetched, filtered, err, computeCalls, fnsAtCompute,
                 elsewhere>>

\* applyFinalProjection on its own output, with the same configuration.
ProjectAgain ==
  /\ pc = "projected"
  /\ result' = <<applyFinalProjection(result[1], dsl.Projection)>>
  /\ pc' = "reprojected"
  /\ UNCHANGED <<registries, request, fetched, filtered, err, computeCalls, fnsAtCompute,
                 elsewhere>>

NextProjection == ProjectOnce \/ ProjectAgain

SpecProjection == InitProjection /\ [][NextProjection]_vars

NoConfiguration ==
  \/ IsNil(dsl.Projection)
  \/ /\ Len(dsl.Projection[1].Include) = 0
     /\ Len(dsl.Projection[1].Exclude) = 0
     /\ Len(dsl.Projection[1].Computed) = 0

\* C19: the final projection is idempotent: applied to its own output with
\* the same configuration it yields the rows of a single application; with
\* no include, no exclude and no computed items it returns the rows
\* unchanged.
C19_FinalProjectionIdempotent ==
  /\ pc = "reprojected" =>
       result[1] = applyFinalProjection(processedRows, dsl.Projection)
  /\ (pc \in {"projected", "reprojected"} /\ NoConfiguration) =>
       result[1] = processedRows

\* A second application on rows the first one had cut: an exclude list
\* that names the alias of a computed item, which stays in the row.
C19_Witness ==
  /\ pc = "reprojected"
  /\ dsl.Projection =
       Projection(<<>>, <<ProjectionField(FULL_NAME)>>,
                  <<Computed(FULL_NAME_CALC, FULL_NAME)>>)
  /\ Len(processedRows) = 2
  /\ result[1] = processedRows
  /\ FULL_NAME \in DOMAIN result[1][1]

\* A second application after the first one dropped keys.
C19_CutWitness ==
  /\ pc = "reprojected"
  /\ Len(processedRows) > 0
  /\ DOMAIN processedRows[1] = RowKeys
  /\ DOMAIN result[1][1] = {ID, FULL_NAME_CALC}

\* ------------------------------------------ C20: the fields to select

FieldRequests ==
  { Request(USERS, QueryDSL(Nil, <<>>, Nil, Nil)),
    Request(USERS, QueryDSL(<<NativeAge>>, <<>>, Nil,
                            Projection(<<ProjectionField(FIRST_NAME), ProjectionField(<<>>),
                                         ProjectionField(FIRST_NAME)>>, <<>>, <<>>))),
    Request(USERS, QueryDSL(<<Group("and", <<NativeAge, AdultOrPremiumCustom>>)>>,
                            <<>>, Nil, Excluding(<<ID>>, <<>>))),
    Request(USERS, QueryDSL(Nil, <<>>, Nil,
                            Projection(<<ProjectionField(ID)>>, <<>>,
                                       <<Computed(FULL_NAME_CALC, FULL_NAME)>>))),
    Request(USERS, QueryDSL(<<NativeAge>>, <<>>, Nil,
                            Projection(<<>>, <<>>, <<Computed(DISPLAY_NAME, <<>>)>>))),
    Request(USERS, QueryDSL(<<Cond(<<>>, "is_adult_check", NilV)>>, <<>>, Nil,
                            IncludeFirstName)) }

SpecFields == InitWith(FieldRequests, Tables) /\ [][Next]_vars

\* The fields the claim lists for the running request.
FieldsToAsk ==
  LET p == dsl.Projection
  IN (IF IsNil(p) THEN {}
      ELSE {p[1].Include[j].Name : j \in 1..Len(p[1].Include)} \ {<<>>})
     \cup (IF IsNil(dsl.Filters) THEN {}
           ELSE {c.Field : c \in CustomConditions(dsl.Filters[1])})
     \cup (IF ~IsNil(p) /\ \E j \in 1..Len(p[1].Computed) :
                 /\ ~IsNil(p[1].Computed[j].ComputedFieldExpression)
                 /\ p[1].Computed[j].ComputedFieldExpression[1].Function = FULL_NAME_CALC
           THEN {FIRST_NAME, LAST_NAME} ELSE {})

IsNamed(f) == Len(f) > 0

\* The SELECT list for the fields asked, as text.
SelectList ==
  LET named == SelectSeq(fieldsToSelect, IsNamed)
  IN IF Len(named) = 0 THEN <<"*">>
     ELSE Join([j \in 1..Len(named) |-> quoteIdentifier(named[j])], <<", ">>)

C20_StarWitness ==
  /\ Succeeded
  /\ FieldsToAsk = {}
  /\ ~IsNil(dsl.Projection)
  /\ sqlQuery[2] = "*"
  /\ Len(result[1]) > 0

\* ------------------------------------------------ C21: the two registries

MaxCalls == 3

\* The functions a caller registers under a compute name: the one of the
\* tests and one more.
RegistryComputeFunctions == ComputeFunctions \cup {"anotherComputeFunction"}

Registration(kind, key, fn) == [kind |-> kind, key |-> key, fn |-> fn]

\* A RegisterComputeFunction call, written down.
RegisterCompute ==
  /\ Len(registrations) < MaxCalls
  /\ \E name \in ComputeNames, fn \in RegistryComputeFunctions :
       /\ RegisterComputeFunction(name, fn)
       /\ registrations' = Append(registrations, Registration("compute", name, fn))
  /\ UNCHANGED <<locking, mutation, stages>>

\* A RegisterFilterFunction call, written down.
RegisterFilter ==
  /\ Len(registrations) < MaxCalls
  /\ \E operator \in FilterOperators, fn \in FilterFunctions :
       /\ RegisterFilterFunction(operator, fn)
       /\ registrations' = Append(registrations, Registration("filter", operator, fn))
  /\ UNCHANGED <<locking, mutation, stages>>

\* Registrations in any order and number, before, between and after the
\* steps of a Query call.
NextRegistry ==
  \/ RegisterCompute
  \/ RegisterFilter
  \/ QueryFetch /\ UNCHANGED elsewhere
  \/ QueryFilter /\ UNCHANGED elsewhere
  \/ QueryCompute /\ UNCHANGED elsewhere

SpecRegistry ==
  /\ InitWith({FirstNames(CustomAdult, <<>>, Nil)}, {SeqOfSet({1})})
  /\ [][NextRegistry]_vars

\* The positions of the registrations made under a key of one registry.
CallsUnder(kind, key) ==
  {i \in 1..Len(registrations) :
     registrations[i].kind = kind /\ registrations[i].key = key}

KeysRegistered(kind) ==
  {registrations[i].key :
     i \in {j \in 1..Len(registrations) : registrations[j].kind = kind}}

Max(S) == CHOOSE m \in S : \A n \in S : n <= m

\* A registry holds exactly the keys registered in it, each with the
\* function of the latest registration under that key.
HoldsLatest(registry, kind) ==
  /\ DOMAIN registry = KeysRegistered(kind)
  /\ \A k \in KeysRegistered(kind) :
       registry[k] = registrations[Max(CallsUnder(kind, k))].fn

\* C21: after any sequence of RegisterComputeFunction and
\* RegisterFilterFunction calls each key maps to the function of the most
\* recent registration under that key and every key ever registered is
\* still present; hence a registration under one key changes no other key
\* of its map and nothing in the other map.
C21_RegistriesHoldLatestRegistration ==
  /\ HoldsLatest(goComputeFunctions, "compute")
  /\ HoldsLatest(goFilterFunctions, "filter")

\* A key registered twice with different functions while the other registry
\* holds a key as well.
C21_Witness ==
  /\ \E i, j \in 1..Len(registrations) :
       /\ i < j
       /\ registrations[i].kind = registrations[j].kind
       /\ registrations[i].key = registrations[j].key
       /\ registrations[i].fn # registrations[j].fn
       /\ \E k \in 1..Len(registrations) :
            registrations[k].kind # registrations[i].kind
  /\ DOMAIN goComputeFunctions # {}
  /\ DOMAIN goFilterFunctions # {}

\* ------------------------------- C22: queries and registrations at once

MaxGoroutines == 2

\* The goroutines that call Query, and those that call a registration.
QueryGoroutines == 1..MaxGoroutines

RegistrarGoroutines == 1..MaxGoroutines

\* e.mu.RLock() returns when no writer holds the lock.
CanRLock(m) == ~m.writer

\* A write lock that waits for the writer only.
CanLockIgnoresReaders(m) == ~m.writer

\* e.mu.Lock() returns when neither a writer nor a reader holds the lock.
CanLock(m) == ~m.writer /\ m.readers = 0

RLock == CanRLock(mu) /\ mu' = [mu EXCEPT !.readers = @ + 1]

RUnlock == mu' = [mu EXCEPT !.readers = @ - 1]

Lock == CanLock(mu) /\ mu' = [mu EXCEPT !.writer = TRUE]

Unlock == mu' = [mu EXCEPT !.writer = FALSE]

\* The executor's maps aside, what the goroutines of this specification
\* leave alone: the request and the single call of the other specifications.
coarse ==
  <<pc, request, fetched, filtered, result, err, computeCalls, fnsAtCompute,
    registrations, mutation, stages>>

\* The locals of a Query call that has not started; seenFilter and
\* seenCompute are history: the registry contents its passes evaluated rows
\* against.
Started ==
  [pc |-> "start", i |-> 0, dbRows |-> <<>>, rows |-> <<>>, err |-> "",
   seenFilter |-> {}, seenCompute |-> {}]

\* A Query call that returns an error.
Failed(q, stage) == [queries[q] EXCEPT !.pc = "done", !.rows = <<>>, !.err = stage]

\* determineFieldsToSelect, line 128: e.mu.RLock()
FieldsRLock ==
  \E q \in QueryGoroutines :
    /\ queries[q].pc = "start"
    /\ RLock
    /\ queries' = [queries EXCEPT ![q].pc = "fields"]
    /\ UNCHANGED <<registries, coarse, registrars>>

\* determineFieldsToSelect, lines 131-157, with the deferred e.mu.RUnlock()
FieldsRUnlock ==
  \E q \in QueryGoroutines :
    /\ queries[q].pc = "fields"
    /\ RUnlock
    /\ queries' = [queries EXCEPT ![q].pc = "generate"]
    /\ UNCHANGED <<registries, coarse, registrars>>

\* Query, lines 60-88: the statement, the backend's answer, the rows read.
GenerateAndFetch ==
  \E q \in QueryGoroutines :
    /\ queries[q].pc = "generate"
    /\ \E finalFields \in FieldOrders(determineFieldsToSelect(dsl)) :
         LET sqlDsl == [dsl EXCEPT !.Projection =
                          Projection([j \in 1..Len(finalFields) |->
                                        ProjectionField(finalFields[j])], <<>>, <<>>)]
             g == Generate(tableName, <<sqlDsl>>)
         IN IF g.err # ""
            THEN queries' = [queries EXCEPT ![q] = Failed(q, "failed to generate SQL query")]
            ELSE \E answer \in QueryContext(g.sql, g.params, table) :
                   IF answer.err # ""
                   THEN queries' = [queries EXCEPT
                                      ![q] = Failed(q, "failed to execute base query")]
                   ELSE queries' = [queries EXCEPT
                                      ![q].pc = "fetched",
                                      ![q].dbRows = readRows(answer.columns, answer.rows)]
    /\ UNCHANGED <<registries, coarse, registrars, mu>>

\* applyGoFilters, lines 254-261: return rows when there is no filter, else
\* e.mu.RLock()
FilterRLock ==
  \E q \in QueryGoroutines :
    /\ queries[q].pc = "fetched"
    /\ IF IsNil(dsl.Filters)
       THEN /\ queries' = [queries EXCEPT ![q].pc = "filtered",
                                          ![q].rows = queries[q].dbRows]
            /\ UNCHANGED mu
       ELSE /\ RLock
            /\ queries' = [queries EXCEPT ![q].pc = "filtering", ![q].i = 1]
    /\ UNCHANGED <<registries, coarse, registrars>>

\* applyGoFilters, lines 262-270: one turn of the loop over the rows; an
\* error returns, which runs the deferred e.mu.RUnlock().
FilterRow ==
  \E q \in QueryGoroutines :
    /\ queries[q].pc = "filtering"
    /\ queries[q].i <= Len(queries[q].dbRows)
    /\ LET row == queries[q].dbRows[queries[q].i]
           r == evaluateGoFilter(row, dsl.Filters[1], goFilterFunctions)
           seen == queries[q].seenFilter \cup {goFilterFunctions}
       IN IF r.err # ""
          THEN /\ RUnlock
               /\ queries' = [queries EXCEPT
                                ![q] = [Failed(q, "Go filter failed")
                                          EXCEPT !.seenFilter = seen]]
          ELSE /\ UNCHANGED mu
               /\ queries' = [queries EXCEPT
                                ![q].i = @ + 1,
                                ![q].rows = IF r.passes THEN Append(@, row) ELSE @,
                                ![q].seenFilter = seen]
    /\ UNCHANGED <<registries, coarse, registrars>>

\* applyGoFilters, line 271: return filteredRows, with the deferred
\* e.mu.RUnlock()
FilterRUnlock ==
  \E q \in QueryGoroutines :
    /\ queries[q].pc = "filtering"
    /\ queries[q].i > Len(queries[q].dbRows)
    /\ RUnlock
    /\ queries' = [queries EXCEPT ![q].pc = "filtered"]
    /\ UNCHANGED <<registries, coarse, registrars>>

\* applyGoComputeFunctions, lines 352-357: return rows when nothing is to be
\* computed (then Query projects them and returns), else e.mu.RLock()
ComputeRLock ==
  \E q \in QueryGoroutines :
    /\ queries[q].pc = "filtered"
    /\ IF IsNil(dsl.Projection) \/ Len(dsl.Projection[1].Computed) = 0
       THEN /\ queries' = [queries EXCEPT
                             ![q].pc = "done",
                             ![q].rows = applyFinalProjection(@, dsl.Projection)]
            /\ UNCHANGED mu
       ELSE /\ RLock
            /\ queries' = [queries EXCEPT ![q].pc = "computing", ![q].i = 1]
    /\ UNCHANGED <<registries, coarse, registrars>>

\* applyGoComputeFunctions, lines 359-381: one turn of the loop over the
\* rows; an error returns, which runs the deferred e.mu.RUnlock().
ComputeRow ==
  \E q \in QueryGoroutines :
    /\ queries[q].pc = "computing"
    /\ queries[q].i <= Len(queries[q].rows)
    /\ LET r == computeItems(queries[q].rows[queries[q].i],
                             dsl.Projection[1].Computed, goComputeFunctions, <<>>)
           seen == queries[q].seenCompute \cup {goComputeFunctions}
       IN IF r.err # ""
          THEN /\ RUnlock
               /\ queries' = [queries EXCEPT
                                ![q] = [Failed(q, "Go computed field failed")
                                          EXCEPT !.seenCompute = seen]]
          ELSE /\ UNCHANGED mu
               /\ queries' = [queries EXCEPT
                                ![q].i = @ + 1,
                                ![q].rows = [@ EXCEPT ![queries[q].i] = r.row],
                                ![q].seenCompute = seen]
    /\ UNCHANGED <<registries, coarse, registrars>>

\* applyGoComputeFunctions, line 382, with the deferred e.mu.RUnlock(); then
\* Query, lines 105-111: the final projection and the result.
ComputeRUnlock ==
  \E q \in QueryGoroutines :
    /\ queries[q].pc = "computing"
    /\ queries[q].i > Len(queries[q].rows)
    /\ RUnlock
    /\ queries' = [queries EXCEPT
                     ![q].pc = "done",
                     ![q].rows = applyFinalProjection(@, dsl.Projection)]
    /\ UNCHANGED <<registries, coarse, registrars>>

\* RegisterComputeFunction / RegisterFilterFunction: e.mu.Lock()
RegistrarLock ==
  \E r \in RegistrarGoroutines :
    /\ registrars[r] = "call"
    /\ Lock
    /\ registrars' = [registrars EXCEPT ![r] = "locked"]
    /\ UNCHANGED <<registries, coarse, queries>>

\* RegisterFilterFunction, line 51: the assignment to the map.
RegistrarWritesFilter ==
  \E r \in RegistrarGoroutines :
    /\ registrars[r] = "locked"
    /\ \E fn \in FilterFunctions : RegisterFilterFunction("is_adult_check", fn)
    /\ registrars' = [registrars EXCEPT ![r] = "written"]
    /\ UNCHANGED <<mu, queries, registrations, mutation, stages>>

\* RegisterComputeFunction, line 42: the assignment to the map.
RegistrarWritesCompute ==
  \E r \in RegistrarGoroutines :
    /\ registrars[r] = "locked"
    /\ \E fn \in RegistryComputeFunctions : RegisterComputeFunction(FULL_NAME_CALC, fn)
    /\ registrars' = [registrars EXCEPT ![r] = "written"]
    /\ UNCHANGED <<mu, queries, registrations, mutation, stages>>

\* The deferred e.mu.Unlock() of a registration.
RegistrarUnlock ==
  \E r \in RegistrarGoroutines :
    /\ registrars[r] = "written"
    /\ Unlock
    /\ registrars' = [registrars EXCEPT ![r] = "done"]
    /\ UNCHANGED <<registries, coarse, queries>>

NextConcurrent ==
  \/ FieldsRLock
  \/ FieldsRUnlock
  \/ GenerateAndFetch
  \/ FilterRLock
  \/ FilterRow
  \/ FilterRUnlock
  \/ ComputeRLock
  \/ ComputeRow
  \/ ComputeRUnlock
  \/ RegistrarLock
  \/ RegistrarWritesFilter
  \/ RegistrarWritesCompute
  \/ RegistrarUnlock

\* The adults, with their full names.
AdultsWithFullName ==
  Request(USERS, QueryDSL(<<CustomAdult>>, <<>>, Nil,
                          Projection(<<>>, <<>>, <<Computed(FULL_NAME_CALC, FULL_NAME)>>)))

\* TestExecutorConcurrencySafety: the two functions are registered, then
\* the goroutines start; here some of them register again meanwhile.
InitConcurrent ==
  /\ InitQuery({AdultsWithFullName}, {SeqOfSet({1, 3})})
  /\ goFilterFunctions = [k \in {"is_adult_check"} |-> "testGoFilterIsAdult"]
  /\ goComputeFunctions = [k \in {FULL_NAME_CALC} |-> "testGoComputeFullName"]
  /\ registrations = <<>>
  /\ mu = Unlocked
  /\ queries = [q \in QueryGoroutines |-> Started]
  /\ registrars = [r \in RegistrarGoroutines |-> "call"]
  /\ mutation = NoMutation
  /\ stages = <<>>

SpecConcurrent == InitConcurrent /\ [][NextConcurrent]_vars

\* A query is inside its field determination, filter pass or compute pass.
Inside(q) == queries[q].pc \in {"fields", "filtering", "computing"}

\* A registration is between taking the write lock and giving it back: the
\* stretch in which it assigns to the map.
Writing(r) == registrars[r] \in {"locked", "written"}

\* C22: with queries and registrations running concurrently, no
\* registration writes a registry map while any query is inside its field
\* determination, filter pass or compute pass, two registrations never
\* write at the same time, and all rows of one filter pass, and of one
\* compute pass, are evaluated against the same registry contents.
C22_RegistryWritesExcludeReads ==
  /\ \A r \in RegistrarGoroutines :
       Writing(r) =>
         /\ \A q \in QueryGoroutines : ~Inside(q)
         /\ \A other \in RegistrarGoroutines \ {r} : ~Writing(other)
  /\ \A q \in QueryGoroutines :
       /\ Cardinality(queries[q].seenFilter) <= 1
       /\ Cardinality(queries[q].seenCompute) <= 1

\* Two queries inside a pass at once, one of them between its two rows,
\* while a registration waits for the lock and the other one has already
\* changed a registry since the filter pass of a query.
C22_Witness ==
  /\ \E q, other \in QueryGoroutines : q # other /\ Inside(q) /\ Inside(other)
  /\ \E q \in QueryGoroutines :
       /\ queries[q].pc = "computing"
       /\ queries[q].i = 2
       /\ Len(queries[q].rows) = 2
       /\ queries[q].seenFilter # {goFilterFunctions}
  /\ \E r \in RegistrarGoroutines : registrars[r] = "call"
  /\ \E r \in RegistrarGoroutines : registrars[r] = "done"

\* A query that returned two rows, each with its computed name.
C22_ResultWitness ==
  \E q \in QueryGoroutines :
    /\ queries[q].pc = "done"
    /\ queries[q].err = ""
    /\ Len(queries[q].rows) = 2
    /\ \A j \in 1..2 : FULL_NAME \in DOMAIN queries[q].rows[j]

\* ------------------------------------------------- C23: the Delete guard

\* Delete generation as the specification states it (its code is not among
\* the sources): the WHERE builder is reused, and a statement that would
\* have no WHERE clause is refused unless unsafeDelete is set.  This
\* variant has no such guard.
GenerateDeleteSQLUnguarded(name, filters, unsafeDelete) ==
  IF Len(name) = 0 THEN Generated(<<>>, <<>>, "table name cannot be empty")
  ELSE LET where == IF ~IsNil(filters) THEN buildWhereClause(filters[1], <<>>)
                    ELSE Built(<<>>, <<>>, "")
       IN IF where.err # ""
          THEN Generated(<<>>, <<>>, "error building WHERE clause")
          ELSE Generated(<<"DELETE FROM ">> \o quoteIdentifier(name)
                           \o (IF Len(where.clause) # 0
                               THEN <<" WHERE ">> \o where.clause ELSE <<>>),
                         where.params, "")

GenerateDeleteSQL(name, filters, unsafeDelete) ==
  IF Len(name) = 0 THEN Generated(<<>>, <<>>, "table name cannot be empty")
  ELSE LET where == IF ~IsNil(filters) THEN buildWhereClause(filters[1], <<>>)
                    ELSE Built(<<>>, <<>>, "")
       IN IF where.err # ""
          THEN Generated(<<>>, <<>>, "error building WHERE clause")
          ELSE IF Len(where.clause) = 0 /\ ~unsafeDelete
          THEN Generated(<<>>, <<>>, "DELETE without WHERE clause requires unsafeDelete")
          ELSE Generated(<<"DELETE FROM ">> \o quoteIdentifier(name)
                           \o (IF Len(where.clause) # 0
                               THEN <<" WHERE ">> \o where.clause ELSE <<>>),
                         where.params, "")

ExecResult(e, rows, affected) == [err |-> e, table |-> rows, affected |-> affected]

\* The end of a DELETE or UPDATE statement from token i: [WHERE expr]; np
\* parameters are bound before it.
ParseTail(toks, kind, tbl, sets, i, np) ==
  IF i = Len(toks) + 1
  THEN [ok |-> TRUE, kind |-> kind, table |-> tbl, sets |-> sets, where |-> Nil, np |-> np]
  ELSE IF ~IsRaw(toks, i, " WHERE ") THEN [ok |-> FALSE]
  ELSE LET w == ParseExpr(toks, i + 1, np)
       IN IF w.ok /\ w.next = Len(toks) + 1
          THEN [ok |-> TRUE, kind |-> kind, table |-> tbl, sets |-> sets,
                where |-> <<w.node>>, np |-> w.np]
          ELSE [ok |-> FALSE]

\* DELETE FROM table [WHERE expr]
ParseDelete(lx) ==
  IF lx.ok /\ IsRaw(lx.toks, 1, "DELETE FROM ") /\ IsId(lx.toks, 2)
  THEN ParseTail(lx.toks, "delete", lx.toks[2].v, <<>>, 3, 0)
  ELSE [ok |-> FALSE]

\* The stored rows with the numbers in idxs left out.
Without(rows, idxs) ==
  LET gone == {idxs[j] : j \in 1..Len(idxs)}
      RECURSIVE From(_)
      From(i) == IF i > Len(rows) THEN <<>>
                 ELSE (IF i \in gone THEN <<>> ELSE <<rows[i]>>) \o From(i + 1)
  IN From(1)

\* A DELETE statement run on the users table.
RunDelete(st, params, rows) ==
  IF ~st.ok THEN {ExecResult("syntax error", rows, 0)}
  ELSE IF st.table # USERS THEN {ExecResult("no such table", rows, 0)}
  ELSE IF st.np # Len(params) \/ \E j \in 1..Len(params) : params[j].t = "list"
  THEN {ExecResult("bad parameter binding", rows, 0)}
  ELSE LET hit == Matching(rows, 1, st.where, params)
       IN {ExecResult("", Without(rows, hit), Len(hit))}
            \cup (IF IsNil(st.where) \/ NodeFields(st.where[1]) \subseteq ColumnSet
                  THEN {} ELSE {ExecResult("no such column", rows, 0)})

\* Delete as the specification states it, after the pattern of Update: the
\* statement is generated and handed to the backend, whose count of
\* affected rows is returned; no in-process stage runs.
Delete ==
  /\ pc = "start"
  /\ LET g == GenerateDeleteSQL(tableName, mutation.filters, mutation.unsafeDelete)
     IN /\ sqlQuery' = g.sql
        /\ queryParams' = g.params
        /\ IF g.err # ""
           THEN Fail("failed to generate SQL DELETE query", g.err) /\ UNCHANGED table
           ELSE \E answer \in RunDelete(ParseDelete(Lex(g.sql)), g.params, table) :
                  IF answer.err # ""
                  THEN Fail("failed to execute DELETE query", answer.err) /\ UNCHANGED table
                  ELSE /\ table' = answer.table
                       /\ result' = <<answer.affected>>
                       /\ err' = NoError
                       /\ pc' = "done"
  /\ UNCHANGED <<registries, tableName, dsl, fieldsToSelect, dbRows, dbSrc, filtered,
                 computeCalls, fnsAtCompute, elsewhere>>

\* The filters a Delete or Update call is given.
MutationFilters ==
  { Nil, <<NativeAge>>, <<CustomAdult>>,
    <<Group("and", <<CustomAdult, CustomPremium>>)>>,
    <<Group("and", <<NativeAge, CustomAdult>>)>>,
    <<Group("or", <<NativeAge, NativePremium>>)>> }

\* A Delete call about to run on some table content.
InitDelete ==
  /\ InitQuery({Request(USERS, QueryDSL(Nil, <<>>, Nil, Nil))}, Tables)
  /\ goFilterFunctions = EmptyMap
  /\ goComputeFunctions = EmptyMap
  /\ registrations = <<>>
  /\ mu = Unlocked
  /\ queries = <<>>
  /\ registrars = <<>>
  /\ stages = <<>>
  /\ \E f \in MutationFilters, u \in BOOLEAN :
       mutation = [filters |-> f, updates |-> <<>>, unsafeDelete |-> u]

SpecDelete == InitDelete /\ [][Delete]_vars

\* The statement is a DELETE with no WHERE clause.
DeleteWithoutWhere(sql) ==
  /\ Len(sql) > 0
  /\ sql[1] = "DELETE FROM "
  /\ ~HasAtom(sql, " WHERE ")

C23_FlagWitness ==
  /\ pc = "done"
  /\ err = NoError
  /\ mutation.unsafeDelete
  /\ DeleteWithoutWhere(sqlQuery)
  /\ result = <<MaxRows>>
  /\ table = <<>>

\* --------------------------------------- C24: computed values and aliases

ComputedOnly(items) == Projection(<<>>, <<>>, items)

AliasRequests ==
  { Request(USERS, QueryDSL(Nil, <<>>, Nil,
      Projection(<<ProjectionField(FIRST_NAME), ProjectionField(LAST_NAME)>>, <<>>,
                 <<Computed(FULL_NAME_CALC, FULL_NAME)>>))),
    Request(USERS, QueryDSL(<<CustomAdult>>, <<>>, Nil,
      ComputedOnly(<<Computed(FULL_NAME_CALC, <<>>)>>))),
    Request(USERS, QueryDSL(Nil, <<>>, Nil,
      ComputedOnly(<<Computed(FULL_NAME_CALC, FIRST_NAME), CaseItem,
                     Computed(FULL_NAME_CALC, FULL_NAME)>>))),
    Request(USERS, QueryDSL(Nil, <<>>, Nil,
      ComputedOnly(<<Computed(FULL_NAME_CALC, FIRST_NAME),
                     Computed(FULL_NAME_CALC, FIRST_NAME)>>))),
    Request(USERS, QueryDSL(Nil, <<>>, Nil,
      Projection(<<>>, <<ProjectionField(FULL_NAME), ProjectionField(LAST_NAME)>>,
                 <<Computed(FULL_NAME_CALC, FULL_NAME),
                   Computed(DISPLAY_NAME, <<>>)>>))) }

SpecAlias == InitWith(AliasRequests, Tables) /\ [][Next]_vars

RECURSIVE RowAfter(_, _)
\* A row once the functions of the items have been applied to it one after
\* the other, each to the row its predecessors left.
RowAfter(row, items) ==
  IF Len(items) = 0 THEN row
  ELSE LET before == RowAfter(row, SubSeq(items, 1, Len(items) - 1))
           item == items[Len(items)]
           value == CallCompute(fnsAtCompute[item.Function], before).value
       IN [k \in DOMAIN before \cup {Alias(item)} |->
             IF k = Alias(item) THEN value ELSE before[k]]

\* The call of item j on returned row i, as recorded.
CallOf(i, j) == computeCalls[(i - 1) * Len(Items) + j]

\* Item j was applied in its turn: to the row that the items before it left.
AppliedInOrder(i, j) ==
  /\ CallOf(i, j).name = Items[j].Function
  /\ CallOf(i, j).found
  /\ Out(CallOf(i, j).value, "")
       = CallCompute(fnsAtCompute[Items[j].Function],
                     RowAfter(processedRows[i], SubSeq(Items, 1, j - 1)))

\* Returned row i holds under the alias of item j what the call returned.
HoldsValue(i, j) ==
  /\ Alias(Items[j]) \in DOMAIN result[1][i]
  /\ result[1][i][Alias(Items[j])] = CallOf(i, j).value

\* No later item of the list writes under the alias of item j.
LastUnderAlias(j) ==
  \A k \in (j + 1)..Len(Items) : Alias(Items[k]) # Alias(Items[j])

\* C24 as stated: after a successful Query every returned row holds, for
\* each function-call item, under the item's alias (the function name when
\* the alias is empty) what the registered function returned for that row,
\* the items being applied in list order so that a later function sees the
\* aliases written by earlier ones.
C24_EveryItemValueUnderItsAlias ==
  Succeeded =>
    \A i \in 1..Len(result[1]), j \in 1..Len(Items) :
      AppliedInOrder(i, j) /\ HoldsValue(i, j)

\* C24, amended: the same for each item whose alias no later item of the
\* list uses; under an alias used twice the row holds the later value.
C24_LastItemValueUnderEachAlias ==
  Succeeded =>
    \A i \in 1..Len(result[1]), j \in 1..Len(Items) :
      AppliedInOrder(i, j) /\ (LastUnderAlias(j) => HoldsValue(i, j))

\* A returned row in which a later function read an alias written by an
\* earlier one, and which holds a value under a function name and under an
\* alias set twice.
C24_Witness ==
  /\ Succeeded
  /\ \E i \in 1..Len(result[1]) :
       /\ \E j \in 2..Len(Items) :
            /\ LastUnderAlias(j)
            /\ HoldsValue(i, j)
            /\ Out(CallOf(i, j).value, "")
                 # CallCompute(fnsAtCompute[Items[j].Function], processedRows[i])
       /\ \E j \in 1..Len(Items) : ~LastUnderAlias(j) /\ ~HoldsValue(i, j)

\* A returned row that holds a value under the function's name, the alias
\* being empty.
C24_DefaultAliasWitness ==
  /\ Succeeded
  /\ Len(result[1]) > 0
  /\ \E j \in 1..Len(Items) :
       /\ Items[j].Alias = <<>>
       /\ HoldsValue(1, j)
       /\ result[1][1][Items[j].Function].t = "text"

\* ------------------------------- C25: one engine for every condition

\* One request for each standard operator, for each custom operator, for a
\* group that mixes them, and for an IN the generator rejects.
EngineRequests ==
  { FirstNames(c, <<>>, Nil) :
      c \in { Cond(AGE, "eq", IntV(30)), Cond(AGE, "neq", IntV(30)),
              Cond(AGE, "lt", IntV(30)), Cond(AGE, "lte", IntV(30)),
              Cond(AGE, "gt", IntV(30)), Cond(AGE, "gte", IntV(30)),
              Cond(AGE, "in", ListV(<<IntV(25), IntV(30)>>)),
              Cond(AGE, "nin", ListV(<<IntV(25)>>)),
              Cond(FIRST_NAME, "contains", TextV(<<"Alice">>)),
              Cond(FIRST_NAME, "ncontains", TextV(<<"Alice">>)),
              Cond(FIRST_NAME, "startswith", TextV(<<"Alice">>)),
              Cond(FIRST_NAME, "endswith", TextV(<<"Alice">>)),
              Cond(AGE, "exists", NilV), Cond(AGE, "nexists", NilV),
              Cond(AGE, "in", ListV(<<>>)),
              CustomAdult, CustomPremium,
              Group("and", <<NativeAge, CustomAdult, NativeActive>>),
              Group("or", <<CustomPremium, Group("not", <<CustomAdult>>)>>) } }

\* A registry that holds a function under the name of a standard operator.
InitEngines ==
  /\ InitQuery(EngineRequests, {SeqOfSet({1}), SeqOfSet({1, 3})})
  /\ goFilterFunctions = [k \in {"eq"} |-> "testGoFilterIsAdult"]
  /\ goComputeFunctions = EmptyMap
  /\ InitElsewhere

SpecEngines == InitEngines /\ [][Next]_vars

\* The operators the specification lists as native.
TheFourteen ==
  {"eq", "neq", "lt", "lte", "gt", "gte", "in", "nin", "contains", "ncontains",
   "startswith", "endswith", "exists", "nexists"}

RECURSIVE LeafSeq(_)
\* The conditions of a filter tree, left to right.
LeafSeq(f) ==
  IF ~IsNil(f.Condition) THEN <<f.Condition[1]>>
  ELSE LET cs == f.Group[1].Conditions
           L[j \in 0..Len(cs)] == IF j = 0 THEN <<>> ELSE L[j - 1] \o LeafSeq(cs[j])
       IN L[Len(cs)]

Leaf(c) == Cond(c.Field, c.Operator, c.Value)

\* The atoms a condition's fragment has after its quoted field.
FragmentAtoms ==
  CompareAtoms \cup {" IN (", " NOT IN (", " IS NOT NULL", " IS NULL"}

Fragments(sql) == Cardinality({k \in 1..Len(sql) : sql[k] \in FragmentAtoms})

NativeLeaves(f) ==
  Cardinality({k \in 1..Len(LeafSeq(f)) : LeafSeq(f)[k].Operator \in TheFourteen})

\* The generator's answer to one condition: a fragment (or its refusal of
\* the condition's value) when the operator is native, nothing otherwise.
GeneratorTakes(c) ==
  LET b == buildWhereClause(Leaf(c), <<>>)
  IN IF c.Operator \in TheFourteen
     THEN (b.err = "" /\ Len(b.clause) > 0) \/ (b.err # "" /\ Len(b.clause) = 0)
     ELSE b = Built(<<>>, <<>>, "")

\* The in-process evaluation of one condition on a row: one registry lookup
\* under the operator's name when the operator is not native, none otherwise.
PassTakes(c, row) ==
  LET r == evaluateGoFilter(row, Leaf(c), goFilterFunctions)
  IN IF c.Operator \in TheFourteen
     THEN r = Eval(TRUE, "", <<>>)
     ELSE Len(r.calls) = 1 /\ r.calls[1].name = c.Operator

\* C25: an operator is native exactly when it is one of the fourteen; for
\* every condition of the request's filter tree the generator emits a
\* fragment iff the operator is native (the statement of a successful
\* generation has one fragment per native condition and none for the others)
\* and the in-process pass looks a function up iff the operator is not native
\* (every lookup the pass makes is under the operator of a custom condition
\* of the tree, also when the registry holds a function under a native name).
C25_OneEngineForEveryCondition ==
  LET f == dsl.Filters[1]
      leaves == LeafSeq(f)
  IN /\ \A k \in 1..Len(leaves) :
          /\ IsStandard(leaves[k].Operator) <=> leaves[k].Operator \in TheFourteen
          /\ GeneratorTakes(leaves[k])
          /\ \A i \in 1..Len(dbRows) : PassTakes(leaves[k], dbRows[i])
     /\ \A op \in TheFourteen \cup FilterOperators :
          IsStandard(op) <=> op \in TheFourteen
     /\ Generation => Fragments(sqlQuery) = NativeLeaves(f)
     /\ \A k \in 1..Len(filterCalls) :
          /\ filterCalls[k].name \notin TheFourteen
          /\ \E j \in 1..Len(leaves) : leaves[j].Operator = filterCalls[k].name
     /\ (pc \in {"filtered", "done"} /\ Generation /\ Len(dbRows) > 0
         /\ (err = NoError \/ err[1] # "failed to execute base query")
         /\ \E k \in 1..Len(leaves) : leaves[k].Operator \notin TheFourteen)
        => Len(filterCalls) > 0

\* A query with two native conditions and a custom one returned a row: two
\* fragments in its statement, lookups for the custom operator only.
C25_Witness ==
  /\ Succeeded
  /\ dsl.Filters[1] = Group("and", <<NativeAge, CustomAdult, NativeActive>>)
  /\ Fragments(sqlQuery) = 2
  /\ Len(filterCalls) > 0
  /\ \A k \in 1..Len(filterCalls) : filterCalls[k].name = "is_adult_check"
  /\ Len(result[1]) > 0

\* A query on an eq condition, with a function registered under eq, returned
\* rows without a lookup.
C25_NativeNameWitness ==
  /\ Succeeded
  /\ dsl.Filters[1] = Cond(AGE, "eq", IntV(30))
  /\ "eq" \in DOMAIN fnsAtFilter
  /\ filterCalls = <<>>
  /\ Fragments(sqlQuery) = 1

\* ------------------------------- C26: placeholders and parameters agree

ParamRequests ==
  { FirstNames(Group("and", <<NativeAge, Cond(FIRST_NAME, "eq", TextV(<<"Alice">>)),
                              NativeActive>>), <<>>, Nil),
    FirstNames(Group("or", <<Cond(AGE, "in", ListV(<<IntV(25), IntV(30)>>)),
                             Cond(ACCESS_LEVEL, "nin", ListV(<<TextV(<<"standard">>)>>)),
                             Cond(FIRST_NAME, "contains", TextV(<<"Alice">>))>>),
               <<>>, Nil),
    FirstNames(Group("and", <<Cond(AGE, "exists", NilV), CustomAdult,
                              Cond(LAST_NAME, "nexists", NilV),
                              Cond(FIRST_NAME, "startswith", TextV(<<"Alice">>))>>),
               <<>>, Nil),
    FirstNames(Group("and", <<AdultOrPremiumCustom, Group("not", <<NativeAdult>>),
                              Cond(LAST_NAME, "endswith", TextV(<<"Smith">>))>>),
               <<>>, Nil),
    FirstNames(Cond(AGE, "in", ListV(<<IntV(18), IntV(25), IntV(30)>>)),
               ByAge("desc"), OffsetPage(1, Nil)),
    FirstNames(CustomAdult, <<>>, Nil) }

SpecParams ==
  InitWith(ParamRequests, {SeqOfSet({1}), SeqOfSet({1, 3})}) /\ [][Next]_vars

Binding(field, value) == [field |-> field, value |-> value]

\* What a native condition binds, left to right: nothing for exists and
\* nexists, one value per list element for in and nin, the pattern made of
\* the value for the LIKE operators, the value otherwise.
BindingsOf(c) ==
  CASE c.Operator \in {"exists", "nexists"} -> <<>>
    [] c.Operator \in {"in", "nin"} ->
         [j \in 1..Len(c.Value.l) |-> Binding(c.Field, c.Value.l[j])]
    [] c.Operator \in {"contains", "ncontains"} ->
         <<Binding(c.Field, TextV(<<"%">> \o Sprintv(c.Value) \o <<"%">>))>>
    [] c.Operator = "startswith" ->
         <<Binding(c.Field, TextV(Sprintv(c.Value) \o <<"%">>))>>
    [] c.Operator = "endswith" ->
         <<Binding(c.Field, TextV(<<"%">> \o Sprintv(c.Value)))>>
    [] OTHER -> <<Binding(c.Field, c.Value)>>

\* The bindings of a filter tree, left to right; a custom condition has none.
ExpectedBindings(f) ==
  LET leaves == LeafSeq(f)
      B[j \in 0..Len(leaves)] ==
        IF j = 0 THEN <<>>
        ELSE B[j - 1] \o (IF leaves[j].Operator \in TheFourteen
                          THEN BindingsOf(leaves[j]) ELSE <<>>)
  IN B[Len(leaves)]

\* For each placeholder of a statement, left to right, the identifier that
\* stands last before it.
MarkFields(toks) ==
  LET M[j \in 0..Len(toks)] ==
        IF j = 0 THEN [last |-> <<>>, fields |-> <<>>]
        ELSE IF toks[j].k = "id" THEN [M[j - 1] EXCEPT !.last = toks[j].v]
        ELSE IF toks[j].v = <<"?">>
             THEN [M[j - 1] EXCEPT !.fields = Append(@, M[j - 1].last)]
        ELSE M[j - 1]
  IN M[Len(toks)].fields

\* C26: when SELECT generation succeeds, the statement has as many ?
\* placeholders as the parameter list has values, and the i-th parameter is
\* the value of the condition whose fragment holds the i-th placeholder:
\* none for exists and nexists, one per list element for in and nin, none
\* for a custom condition.
C26_PlaceholdersMatchParameters ==
  Generation =>
    LET marks == MarkFields(Lex(sqlQuery).toks)
        expected == ExpectedBindings(dsl.Filters[1])
    IN /\ CountAtom(sqlQuery, "?") = Len(queryParams)
       /\ Len(marks) = Len(queryParams)
       /\ Len(expected) = Len(queryParams)
       /\ \A i \in 1..Len(queryParams) :
            /\ marks[i] = expected[i].field
            /\ queryParams[i] = expected[i].value

\* A query with a two-element IN list, a one-element NOT IN list and a LIKE
\* pattern ran with four placeholders and four parameters.
C26_Witness ==
  /\ Succeeded
  /\ Len(queryParams) = 4
  /\ CountAtom(sqlQuery, "?") = 4
  /\ queryParams[2] = IntV(30)
  /\ queryParams[4] = TextV(<<"%", "Alice", "%">>)
  /\ MarkFields(Lex(sqlQuery).toks) = <<AGE, AGE, ACCESS_LEVEL, FIRST_NAME>>

\* A query with exists, nexists and a custom condition ran with a single
\* parameter.
C26_NoPlaceholderWitness ==
  /\ Succeeded
  /\ Len(LeafSeq(dsl.Filters[1])) = 4
  /\ HasAtom(sqlQuery, " IS NOT NULL")
  /\ HasAtom(sqlQuery, " IS NULL")
  /\ Len(queryParams) = 1

\* ------------------- C27: a page of the filtered, sorted rows

\* Sorted, paginated requests whose filter has a custom condition.
WindowRequests ==
  { FirstNames(CustomAdult, ByAge("asc"), OffsetPage(1, Nil)),
    FirstNames(CustomAdult, ByAge("desc"), OffsetPage(1, <<1>>)),
    FirstNames(CustomAdult, ByAge("asc"), OffsetPage(2, <<0>>)),
    FirstNames(CustomPremium, ByAge("desc"), OffsetPage(1, Nil)),
    FirstNames(Group("and", <<NativeActive, CustomAdult>>), ByAge("asc"),
               OffsetPage(1, <<1>>)) }

SpecWindow == InitWith(WindowRequests, Tables) /\ [][Next]_vars

InFilter(n) == Holds(dsl.Filters[1], table[n], fnsAtFilter)

\* The first names of rows O+1..O+L of the stored rows the whole filter
\* states true, in the order of the request's sort.
Page ==
  LET satisfying == SelectSeq([n \in 1..Len(table) |-> n], InFilter)
      sorted == OrderBy(satisfying, table,
                        [j \in 1..Len(dsl.Sort) |->
                           [f |-> dsl.Sort[j].Field,
                            desc |-> dsl.Sort[j].Direction = "desc"]])
      page == Window(sorted, dsl.Pagination[1].Limit,
                     IF IsNil(dsl.Pagination[1].Offset) THEN 0
                     ELSE dsl.Pagination[1].Offset[1])
  IN [i \in 1..Len(page) |-> table[page[i]][FIRST_NAME]]

\* C27: a Query with offset pagination (limit L, offset O), a sort and a
\* filter with a custom condition returns rows O+1..O+L of the sorted
\* sequence of the table rows that satisfy the whole filter; L rows when at
\* least O+L rows satisfy it.
C27_PageOfFilteredSortedRows ==
  (Succeeded /\ Registered(dsl.Filters[1])) => Returned = Page

\* A query with limit 1 returned no row although a stored row satisfies the
\* filter: the statement's LIMIT cut the rows before the in-process pass saw
\* them.
C27_Witness ==
  /\ Succeeded
  /\ Registered(dsl.Filters[1])
  /\ HasAtom(sqlQuery, " LIMIT ")
  /\ Len(kept) < Len(dbRows)
  /\ Len(Page) = 1
  /\ Returned = <<>>

\* A query whose page is the one the claim states: the rows the statement
\* cut away were rows the filter rejects.
C27_AgreeingWitness ==
  /\ Succeeded
  /\ Registered(dsl.Filters[1])
  /\ Len(table) = 2
  /\ Len(Page) = 1
  /\ Returned = Page

\* --------------------------------- C28: the stages of a Query, in order

\* One step of a Query call: its stage, the row it worked on (0 when none),
\* its error, whether the row passed, the registry lookups and calls it
\* made, and the backend's answer when the step is the execution.
Step(stage, row, e, passes, calls, answer) ==
  [stage |-> stage, row |-> row, err |-> e, passes |-> passes, calls |-> calls,
   answer |-> answer]

Steps(stage) == {k \in 1..Len(stages) : stages[k].stage = stage}

\* The rows the filter loop and the compute loop have gone through.
FilterIndex == Cardinality(Steps("filter"))
ComputeIndex == Cardinality(Steps("compute"))

HasComputed == ~IsNil(dsl.Projection) /\ Len(dsl.Projection[1].Computed) > 0

\* A GenerateSelectSQL whose error the caller ignores.
StageGenerateGoesOn ==
  /\ pc = "start"
  /\ \E finalFields \in FieldOrders(determineFieldsToSelect(dsl)) :
       LET sqlDsl == [dsl EXCEPT !.Projection =
                        Projection([j \in 1..Len(finalFields) |->
                                      ProjectionField(finalFields[j])], <<>>, <<>>)]
           g == Generate(tableName, <<sqlDsl>>)
       IN /\ fieldsToSelect' = finalFields
          /\ sqlQuery' = g.sql
          /\ queryParams' = g.params
          /\ stages' = Append(stages, Step("generate", 0, g.err, FALSE, <<>>, <<>>))
          /\ pc' = "generated"
          /\ UNCHANGED <<result, err>>
  /\ UNCHANGED <<registries, request, dbRows, dbSrc, filtered, computeCalls,
                 fnsAtCompute, registrations, locking, mutation>>

\* Query, lines 58-73: the fields to fetch and the statement.
StageGenerate ==
  /\ pc = "start"
  /\ \E finalFields \in FieldOrders(determineFieldsToSelect(dsl)) :
       LET sqlDsl == [dsl EXCEPT !.Projection =
                        Projection([j \in 1..Len(finalFields) |->
                                      ProjectionField(finalFields[j])], <<>>, <<>>)]
           g == Generate(tableName, <<sqlDsl>>)
       IN /\ fieldsToSelect' = finalFields
          /\ sqlQuery' = g.sql
          /\ queryParams' = g.params
          /\ stages' = Append(stages, Step("generate", 0, g.err, FALSE, <<>>, <<>>))
          /\ IF g.err # "" THEN Fail("failed to generate SQL query", g.err)
             ELSE pc' = "generated" /\ UNCHANGED <<result, err>>
  /\ UNCHANGED <<registries, request, dbRows, dbSrc, filtered, computeCalls,
                 fnsAtCompute, registrations, locking, mutation>>

\* Query, lines 78-82: e.db.QueryContext.
StageExecute ==
  /\ pc = "generated"
  /\ \E answer \in QueryContext(sqlQuery, queryParams, table) :
       /\ stages' = Append(stages, Step("execute", 0, answer.err, FALSE, <<>>, <<answer>>))
       /\ IF answer.err # "" THEN Fail("failed to execute base query", answer.err)
          ELSE pc' = "executed" /\ UNCHANGED <<result, err>>
  /\ UNCHANGED <<registries, request, fetched, filtered, computeCalls, fnsAtCompute,
                 registrations, locking, mutation>>

\* Query, lines 84-88: readRows over the answer.
StageRead ==
  /\ pc = "executed"
  /\ LET answer == stages[Len(stages)].answer[1]
     IN /\ dbRows' = readRows(answer.columns, answer.rows)
        /\ dbSrc' = answer.src
        /\ stages' = Append(stages, Step("read", Len(answer.rows), "", FALSE, <<>>, <<>>))
  /\ pc' = "fetched"
  /\ UNCHANGED <<registries, request, fieldsToSelect, sqlQuery, queryParams, filtered,
                 result, err, computeCalls, fnsAtCompute, registrations, locking,
                 mutation>>

\* applyGoFilters, lines 261-269: one turn of the loop over the rows.
StageFilterRow ==
  /\ pc = "fetched"
  /\ ~IsNil(dsl.Filters)
  /\ FilterIndex < Len(dbRows)
  /\ LET i == FilterIndex + 1
         r == evaluateGoFilter(dbRows[i], dsl.Filters[1], goFilterFunctions)
     IN /\ stages' = Append(stages, Step("filter", i, r.err, r.passes, r.calls, <<>>))
        /\ filterCalls' = filterCalls \o r.calls
        /\ fnsAtFilter' = goFilterFunctions
        /\ IF r.err # ""
           THEN /\ Fail("Go filter failed", r.err)
                /\ processedRows' = <<>>
                /\ kept' = <<>>
           ELSE /\ processedRows' = IF r.passes THEN Append(processedRows, dbRows[i])
                                    ELSE processedRows
                /\ kept' = IF r.passes THEN Append(kept, i) ELSE kept
                /\ UNCHANGED <<pc, result, err>>
  /\ UNCHANGED <<registries, request, fetched, computeCalls, fnsAtCompute,
                 registrations, locking, mutation>>

\* applyGoFilters returns: at once for a nil filter, after the last row
\* otherwise.
StageFilterDone ==
  /\ pc = "fetched"
  /\ IsNil(dsl.Filters) \/ FilterIndex = Len(dbRows)
  /\ pc' = "filtered"
  /\ stages' = Append(stages, Step("filtered", 0, "", FALSE, <<>>, <<>>))
  /\ IF IsNil(dsl.Filters)
     THEN /\ processedRows' = dbRows
          /\ kept' = [j \in 1..Len(dbRows) |-> j]
     ELSE UNCHANGED <<processedRows, kept>>
  /\ UNCHANGED <<registries, request, fetched, filterCalls, fnsAtFilter, result, err,
                 computeCalls, fnsAtCompute, registrations, locking, mutation>>

\* applyGoComputeFunctions, lines 359-381: one turn of the loop over the
\* rows, which writes the values into the row itself.
StageComputeRow ==
  /\ pc = "filtered"
  /\ HasComputed
  /\ ComputeIndex < Len(processedRows)
  /\ LET j == ComputeIndex + 1
         r == computeItems(processedRows[j], dsl.Projection[1].Computed,
                           goComputeFunctions, <<>>)
     IN /\ stages' = Append(stages, Step("compute", j, r.err, r.err = "", r.calls, <<>>))
        /\ computeCalls' = computeCalls \o r.calls
        /\ fnsAtCompute' = goComputeFunctions
        /\ IF r.err # ""
           THEN /\ Fail("Go computed field failed", r.err)
                /\ UNCHANGED processedRows
           ELSE /\ processedRows' = [processedRows EXCEPT ![j] = r.row]
                /\ UNCHANGED <<pc, result, err>>
  /\ UNCHANGED <<registries, request, fetched, kept, filterCalls, fnsAtFilter,
                 registrations, locking, mutation>>

\* Query, lines 104-111: the final projection and the result.
StageProject ==
  /\ pc = "filtered"
  /\ ~HasComputed \/ ComputeIndex = Len(processedRows)
  /\ pc' = "done"
  /\ result' = <<applyFinalProjection(processedRows, dsl.Projection)>>
  /\ err' = NoError
  /\ stages' = Append(stages, Step("project", 0, "", FALSE, <<>>, <<>>))
  /\ UNCHANGED <<registries, request, fetched, filtered, computeCalls, fnsAtCompute,
                 registrations, locking, mutation>>

\* A pass holds the read lock from its first row to its return.
MidPass ==
  \/ pc = "fetched" /\ FilterIndex > 0
  \/ pc = "filtered" /\ ComputeIndex > 0

NextStages ==
  \/ /\ pc # "done" /\ ~MidPass
     /\ \E name \in ComputeNames, fn \in ComputeFunctions :
          RegisterComputeFunction(name, fn)
     /\ UNCHANGED elsewhere
  \/ /\ pc # "done" /\ ~MidPass
     /\ \E operator \in FilterOperators, fn \in FilterFunctions :
          RegisterFilterFunction(operator, fn)
     /\ UNCHANGED elsewhere
  \/ StageGenerate
  \/ StageExecute
  \/ StageRead
  \/ StageFilterRow
  \/ StageFilterDone
  \/ StageComputeRow
  \/ StageProject

ORDERS == Name("orders")

\* The test request, a request without functions, a request the generator
\* rejects (empty table name) and one the backend rejects (no such table).
StageRequests ==
  { AdultsWithFullName,
    Request(USERS, QueryDSL(<<NativeAge>>, <<>>, Nil, IncludeFirstName)),
    Request(USERS, QueryDSL(Nil, <<>>, Nil,
                            Projection(<<>>, <<>>, <<Computed(FULL_NAME_CALC, FULL_NAME)>>))),
    Request(<<>>, QueryDSL(<<CustomAdult>>, <<>>, Nil, IncludeFirstName)),
    Request(ORDERS, QueryDSL(<<CustomAdult>>, <<>>, Nil, IncludeFirstName)) }

SpecStages ==
  InitWith(StageRequests, {SeqOfSet({3}), SeqOfSet({1, 2}), SeqOfSet({1, 2, 3})})
    /\ [][NextStages]_vars

\* A step that called a registered function.
Invokes(k) == \E c \in 1..Len(stages[k].calls) : stages[k].calls[c].found

\* C28: the statement is executed at most once and only after a generation
\* without error, and nothing follows a generation error; no registered
\* function is called before the rows were read; a compute function is
\* called only after the filter pass returned without error, having gone
\* through every fetched row, and only on a row that passed it.
C28_StagesInOrder ==
  /\ Cardinality(Steps("execute")) <= 1
  /\ \A k \in Steps("execute") :
       \E g \in Steps("generate") : g < k /\ stages[g].err = ""
  /\ \A g \in Steps("generate") :
       stages[g].err # "" => g = Len(stages) /\ Steps("execute") = {}
  /\ \A k \in 1..Len(stages) :
       Invokes(k) =>
         \E r \in Steps("read") :
           r < k /\ stages[r].row = Len(dbRows) /\ Cardinality(Steps("read")) = 1
  /\ \A k \in Steps("compute") :
       Invokes(k) =>
         /\ \E d \in Steps("filtered") :
              /\ d < k
              /\ \A f \in Steps("filter") : f < d /\ stages[f].err = ""
              /\ ~IsNil(dsl.Filters) => Cardinality(Steps("filter")) = Len(dbRows)
         /\ stages[k].row \in 1..Len(kept)
         /\ ~IsNil(dsl.Filters) =>
              \E f \in Steps("filter") :
                stages[f].row = kept[stages[k].row] /\ stages[f].passes

\* A query went through every stage: its filter function dropped a row and
\* kept one, and its compute function was called on the kept row only.
C28_Witness ==
  /\ Succeeded
  /\ Len(dbRows) = 2
  /\ Len(kept) = 1
  /\ Cardinality(Steps("filter")) = 2
  /\ Cardinality(Steps("compute")) = 1
  /\ \A k \in Steps("compute") : Invokes(k)
  /\ Len(result[1]) = 1

\* A generation error ended the call: nothing was executed.
C28_GenerationErrorWitness ==
  /\ pc = "done"
  /\ err # NoError
  /\ err[1] = "failed to generate SQL query"
  /\ Len(stages) = 1
  /\ Steps("execute") = {}

\* ------------------------ C29: Update and the rows a function rejects

Assign(field, value) == [field |-> field, value |-> value]

\* Update generation as the specification states it (its code is not among
\* the sources): a SET "field" = ? fragment per entry of the update map, the
\* values as parameters, and the WHERE builder for the filter.  updates is
\* the map in the order the generator ranges over it.
GenerateUpdateSQL(name, updates, filters) ==
  IF Len(name) = 0 THEN Generated(<<>>, <<>>, "table name cannot be empty")
  ELSE LET setClauses == [j \in 1..Len(updates) |->
                            quoteIdentifier(updates[j].field) \o <<" = ", "?">>]
           setParams == [j \in 1..Len(updates) |-> updates[j].value]
           where == IF ~IsNil(filters) THEN buildWhereClause(filters[1], setParams)
                    ELSE Built(<<>>, setParams, "")
       IN IF where.err # ""
          THEN Generated(<<>>, <<>>, "error building WHERE clause")
          ELSE Generated(<<"UPDATE ">> \o quoteIdentifier(name) \o <<" SET ">>
                           \o Join(setClauses, <<", ">>)
                           \o (IF Len(where.clause) # 0
                               THEN <<" WHERE ">> \o where.clause ELSE <<>>),
                         where.params, "")

RECURSIVE ParseSets(_, _, _)
\* "a" = ?, "b" = ?, ... : the columns a statement sets.
ParseSets(toks, i, sets) ==
  IF IsId(toks, i) /\ IsRaw(toks, i + 1, " = ") /\ IsRaw(toks, i + 2, "?")
  THEN IF IsRaw(toks, i + 3, ", ")
       THEN ParseSets(toks, i + 4, Append(sets, toks[i].v))
       ELSE [ok |-> TRUE, sets |-> Append(sets, toks[i].v), next |-> i + 3]
  ELSE [ok |-> FALSE, sets |-> sets, next |-> i]

ParseUpdateSets(toks, s) ==
  IF s.ok THEN ParseTail(toks, "update", toks[2].v, s.sets, s.next, Len(s.sets))
  ELSE [ok |-> FALSE]

\* UPDATE table SET sets [WHERE expr]
ParseUpdate(lx) ==
  IF lx.ok /\ IsRaw(lx.toks, 1, "UPDATE ") /\ IsId(lx.toks, 2)
     /\ IsRaw(lx.toks, 3, " SET ")
  THEN ParseUpdateSets(lx.toks, ParseSets(lx.toks, 4, <<>>))
  ELSE [ok |-> FALSE]

\* The stored row with the columns of sets given the first parameters.
Assigned(row, sets, params) ==
  [c \in DOMAIN row |->
     IF \E j \in 1..Len(sets) : sets[j] = c
     THEN DriverValue(params[CHOOSE j \in 1..Len(sets) :
                               sets[j] = c /\ \A m \in j + 1..Len(sets) : sets[m] # c])
     ELSE row[c]]

\* An UPDATE statement run on the users table.
RunUpdate(st, params, rows) ==
  IF ~st.ok THEN {ExecResult("syntax error", rows, 0)}
  ELSE IF st.table # USERS THEN {ExecResult("no such table", rows, 0)}
  ELSE IF st.np # Len(params) \/ \E j \in 1..Len(params) : params[j].t = "list"
  THEN {ExecResult("bad parameter binding", rows, 0)}
  ELSE IF \E j \in 1..Len(st.sets) : st.sets[j] \notin ColumnSet
  THEN {ExecResult("no such column", rows, 0)}
  ELSE LET hit == Matching(rows, 1, st.where, params)
           hits == {hit[j] : j \in 1..Len(hit)}
       IN {ExecResult("", [n \in 1..Len(rows) |->
                             IF n \in hits THEN Assigned(rows[n], st.sets, params)
                             ELSE rows[n]],
                      Len(hit))}
            \cup (IF IsNil(st.where) \/ NodeFields(st.where[1]) \subseteq ColumnSet
                  THEN {} ELSE {ExecResult("no such column", rows, 0)})

\* Update, lines 442-464: the statement is generated and handed to the
\* backend, whose result is returned; no in-process stage runs.
Update ==
  /\ pc = "start"
  /\ LET g == GenerateUpdateSQL(tableName, mutation.updates, mutation.filters)
     IN /\ sqlQuery' = g.sql
        /\ queryParams' = g.params
        /\ IF g.err # ""
           THEN Fail("failed to generate SQL UPDATE query", g.err) /\ UNCHANGED table
           ELSE \E answer \in RunUpdate(ParseUpdate(Lex(g.sql)), g.params, table) :
                  IF answer.err # ""
                  THEN Fail("failed to execute UPDATE query", answer.err) /\ UNCHANGED table
                  ELSE /\ table' = answer.table
                       /\ result' = <<answer.affected>>
                       /\ err' = NoError
                       /\ pc' = "done"
  /\ UNCHANGED <<registries, tableName, dsl, fieldsToSelect, dbRows, dbSrc, filtered,
                 computeCalls, fnsAtCompute, elsewhere>>

GOLD == TextV(<<"gold">>)

\* The update maps of the calls, in an order of their keys.
UpdateMaps ==
  { <<Assign(ACCESS_LEVEL, GOLD)>>,
    <<Assign(AGE, IntV(99))>>,
    <<Assign(ACCESS_LEVEL, GOLD), Assign(IS_ACTIVE, BoolV(FALSE))>>,
    <<Assign(IS_ACTIVE, BoolV(FALSE)), Assign(ACCESS_LEVEL, GOLD)>> }

\* An Update call about to run on some table content, both filter
\* functions of the tests registered; before is the table as the call
\* found it.
InitUpdate ==
  /\ InitQuery({Request(USERS, QueryDSL(Nil, <<>>, Nil, Nil))}, Tables)
  /\ goFilterFunctions =
       [k \in FilterOperators |->
          IF k = "is_adult_check" THEN "testGoFilterIsAdult"
          ELSE "testGoFilterHasAccessLevel"]
  /\ goComputeFunctions = EmptyMap
  /\ registrations = <<>>
  /\ mu = Unlocked
  /\ queries = <<>>
  /\ registrars = <<>>
  /\ stages = <<>>
  /\ \E f \in MutationFilters, u \in UpdateMaps :
       mutation = [filters |-> f, updates |-> u, unsafeDelete |-> FALSE,
                   before |-> table]

SpecUpdate == InitUpdate /\ [][Update]_vars

\* A custom condition of the call's filter whose registered function
\* returns false for the stored row.
Rejects(row) ==
  /\ ~IsNil(mutation.filters)
  /\ \E c \in CustomConditions(mutation.filters[1]) :
       /\ c.Operator \in DOMAIN goFilterFunctions
       /\ CallFilter(goFilterFunctions[c.Operator], GoRow(row)) = Out(FALSE, "")

\* C29: an Update whose filter has a custom condition modifies no row for
\* which the condition's registered function returns false; an Update whose
\* filter has custom conditions only does not update every row.
C29_UpdateSparesRejectedRows ==
  (pc = "done" /\ err = NoError) =>
    \A n \in 1..Len(table) :
      Rejects(mutation.before[n]) => table[n] = mutation.before[n]

\* An Update filtered by is_adult_check alone ran a statement without a
\* WHERE clause and changed every row, a minor's among them.
C29_Witness ==
  /\ pc = "done"
  /\ err = NoError
  /\ mutation.filters = <<CustomAdult>>
  /\ ~HasAtom(sqlQuery, " WHERE ")
  /\ Len(table) = MaxRows
  /\ result = <<Len(table)>>
  /\ \E n \in 1..Len(table) :
       /\ Rejects(mutation.before[n])
       /\ table[n] # mutation.before[n]
       /\ table[n][ACCESS_LEVEL] = GOLD

\* An Update with a native condition changed the rows its WHERE clause
\* accepts and no other.
C29_NativeWitness ==
  /\ pc = "done"
  /\ err = NoError
  /\ mutation.filters = <<NativeAge>>
  /\ HasAtom(sqlQuery, " WHERE ")
  /\ result = <<1>>
  /\ Len(table) = 2
  /\ \E n \in 1..2 : table[n] = mutation.before[n]

\* ------------------------------------- C30: the ORDER BY fragments

\* What a caller can put into Direction, a string type: the two constants,
\* another spelling, no direction, another word.
Directions == {"asc", "desc", "Desc", "", "sideways"}

SortRequests ==
  { Request(USERS, QueryDSL(Nil, sort, pagination, IdAndFirstName)) :
      sort \in { <<>>, <<SortCfg(ID, "asc"), SortCfg(AGE, "desc")>> }
               \cup { <<SortCfg(AGE, d)>> : d \in Directions }
               \cup { <<SortCfg(AGE, "desc"), SortCfg(ID, d)>> : d \in {"Desc", "sideways"} },
      pagination \in {Nil, OffsetPage(1, Nil)} }

SpecSort ==
  InitWith(SortRequests, {SeqOfSet({1}), SeqOfSet({1, 2})}) /\ [][Next]_vars

\* Where the ORDER BY clause starts in the tokens of a statement, 0 when
\* the statement has none.
OrderByAt(toks) ==
  IF \E k \in 1..Len(toks) : toks[k] = Tok("raw", <<" ORDER BY ">>)
  THEN CHOOSE k \in 1..Len(toks) : toks[k] = Tok("raw", <<" ORDER BY ">>)
  ELSE 0

\* The j-th fragment after token o is the quoted field of the j-th Sort
\* entry, a space, and ASC or DESC: ASC for asc, DESC for desc.
FragmentOf(toks, o, j) ==
  LET at == o + 4 * (j - 1)
      entry == dsl.Sort[j]
  IN /\ at + 3 <= Len(toks)
     /\ toks[at + 1] = Tok("id", entry.Field)
     /\ toks[at + 2] = Tok("raw", <<" ">>)
     /\ toks[at + 3].k = "raw"
     /\ toks[at + 3].v \in {<<"ASC">>, <<"DESC">>}
     /\ entry.Direction = "asc" => toks[at + 3].v = <<"ASC">>
     /\ entry.Direction = "desc" => toks[at + 3].v = <<"DESC">>
     /\ IF j < Len(dsl.Sort) THEN at + 4 <= Len(toks) /\ toks[at + 4] = Tok("raw", <<", ">>)
        ELSE at + 3 = Len(toks) \/ toks[at + 4] = Tok("raw", <<" LIMIT ">>)

\* C30: the ORDER BY clause has one fragment per Sort entry, in list order,
\* each the quoted field name followed by exactly ASC or DESC; no other
\* direction text is in the statement.
C30_OrderByFragments ==
  Generation =>
    LET toks == Lex(sqlQuery).toks
        o == OrderByAt(toks)
    IN /\ (o = 0) <=> (Len(dsl.Sort) = 0)
       /\ \A j \in 1..Len(dsl.Sort) : FragmentOf(toks, o, j)

\* A statement was generated, and sent to the backend, with a direction that
\* is neither ASC nor DESC.
C30_Witness ==
  /\ pc = "done"
  /\ err # NoError
  /\ err[1] = "failed to execute base query"
  /\ dsl.Sort = <<SortCfg(AGE, "desc"), SortCfg(ID, "sideways")>>
  /\ HasAtom(sqlQuery, "SIDEWAYS")
  /\ HasAtom(sqlQuery, "DESC")

\* C30 for the directions asc and desc in any spelling: the fragments are as
\* the claim states.
C30_KnownDirectionsOrderByFragments ==
  (Generation /\ \A j \in 1..Len(dsl.Sort) : ToUpper(dsl.Sort[j].Direction) \in {"ASC", "DESC"})
    => LET toks == Lex(sqlQuery).toks
           o == OrderByAt(toks)
       IN /\ (o = 0) <=> (Len(dsl.Sort) = 0)
          /\ \A j \in 1..Len(dsl.Sort) : FragmentOf(toks, o, j)

====
